---- MODULE Spec2Model ----
(***************************************************************************)
(* pc_watcher: the event capture and detection pipeline.                   *)
(*                                                                         *)
(*   OS callbacks (message-loop thread) --queue A--> Event Worker          *)
(*        --queue B--> Logging Sink --> session log file                   *)
(*                                                                         *)
(* Threads: the main thread (run_with_tray_check, which becomes the        *)
(* message-loop/capture thread), the Event Worker, the Logging Sink, the   *)
(* tray exit checker and the CTRL+C handler.  Time is the system clock in  *)
(* milliseconds.                                                           *)
(***************************************************************************)
EXTENDS Integers, Sequences, FiniteSets, TLC

\* ---------------------------------------------------------------- constants

\* event_hook.rs: const CLICK_WINDOW_MS: u64 = 500
CLICK_WINDOW_MS == 500

\* event_hook.rs: (now_ms - time).abs() < 100
DEDUP_WINDOW_MS == 100

\* event_hook.rs: if last_events.len() > 10 { last_events.remove(0) }
DEDUP_CAPACITY == 10

\* event_hook.rs: bounded::<WindowEvent>(1000), bounded::<LogEntry>(1000)
CHANNEL_CAPACITY == 1000

\* process_info.rs: const CACHE_TTL: Duration = Duration::from_secs(5), in ms
CACHE_TTL == 5000

\* process_info.rs: if cache.len() > 100
CACHE_SWEEP_LEN == 100

\* logger.rs: let flush_interval = 10
flush_interval == 10

\* ------------------------------------------------------------------- bounds

\* The system clock (ms since the epoch) when the process starts.  Any value
\* of at least CLICK_WINDOW_MS: LAST_MOUSE_CLICK_MS = 0 is then "long ago".
Clock0 == 1000

\* How far the clock runs in a specification that lets time pass.
MaxClockSpan == 100

\* Window events the callbacks build in the pipeline specification.
MaxEvents == 3

\* SpecClick: the time it lets pass, in ms, and the window events it captures
MaxClickSpan == 600

MaxClickEvents == 2

\* SpecBurst: the time it lets pass, in ms
MaxBurstSpan == 50

\* SpecFlood: the window events it captures
MaxFlood == 1002

\* SpecAlerts: the time it lets pass, in ms, and the window events it captures
MaxAlertSpan == 500

MaxAlertEvents == 2

\* the OS: the processes, one window each, beside the ones named in ProcTable
MaxPids == 102

\* SpecScenarioA, SpecScenarioB: the time they let pass, in ms
MaxScenarioSpan == 100

\* SpecCancel: the window events of the session
MaxCancelEvents == 3

\* SpecFilter: calls of win_event_proc
MaxFilterCalls == 2

\* alert_window.rs, set_alert: thread::sleep(Duration::from_secs(5)), in ms
ALERT_TIMEOUT_MS == 5000

\* SpecAlertWindow: the set_alert calls, the add_log_entry calls and the
\* time it lets pass, in ms
MaxSetAlerts == 2

MaxLogCalls == 2

MaxAlertWindowSpan == 7500

\* SpecTree: calls of the resolver, and the time they may take
MaxTreeCalls == 2

MaxTreeSpan == 5000

\* SpecFill: the calls made, and the time it lets pass, in ms
MaxFillCalls == 102

MaxFillSpan == 5000

\* SpecResolve: the time it lets pass, in ms, and the calls made
MaxResolveSpan == 7500

MaxResolveCalls == 3

\* SpecRetention: the time it lets pass, in ms
MaxRetentionSpan == 5000

\* SpecSinkFails: the window events of the session
MaxSinkFailEvents == 3

\* SpecFlush: the window events of the session
MaxFlushEvents == 21

\* SpecNames: the longest name put together letter by letter
MaxNameLen == 4

\* ---------------------------------------------------------------- utilities

Abs(x) == IF x < 0 THEN -x ELSE x

\* u64::saturating_sub
SaturatingSub(a, b) == IF a >= b THEN a - b ELSE 0

Range(s) == {s[i] : i \in 1..Len(s)}

\* ------------------------------------------------------------------ strings
\* A string is read character by character through Chars; the names below are
\* the ones the modelled OS can report.

Chars(s) ==
    CASE s = "powershell"   -> <<"p","o","w","e","r","s","h","e","l","l">>
      [] s = "PowerShell"   -> <<"P","o","w","e","r","S","h","e","l","l">>
      [] s = "powershell.exe" -> <<"p","o","w","e","r","s","h","e","l","l",".","e","x","e">>
      [] s = "cmd"          -> <<"c","m","d">>
      [] s = "notepad"      -> <<"n","o","t","e","p","a","d">>
      [] s = "explorer"     -> <<"e","x","p","l","o","r","e","r">>
      [] s = "Explorer"     -> <<"E","x","p","l","o","r","e","r">>
      [] s = "Explorer.EXE" -> <<"E","x","p","l","o","r","e","r",".","E","X","E">>
      [] s = "explorer.exe" -> <<"e","x","p","l","o","r","e","r",".","e","x","e">>
      [] s = "pc_watcher"   -> <<"p","c","_","w","a","t","c","h","e","r">>
      [] s = "pc_watcher.exe" -> <<"p","c","_","w","a","t","c","h","e","r",".","e","x","e">>
      [] s = "pwsh"         -> <<"p","w","s","h">>
      [] s = "wscript"      -> <<"w","s","c","r","i","p","t">>
      [] s = "cscript"      -> <<"c","s","c","r","i","p","t">>
      [] s = "mshta"        -> <<"m","s","h","t","a">>
      [] s = "rundll32"     -> <<"r","u","n","d","l","l","3","2">>
      [] s = "regsvr32"     -> <<"r","e","g","s","v","r","3","2">>
      [] s = "Unknown"      -> <<"U","n","k","n","o","w","n">>
      [] s = "System"       -> <<"S","y","s","t","e","m">>
      [] s = "Access denied" -> <<"A","c","c","e","s","s"," ","d","e","n","i","e","d">>
      [] s = "Access denied (elevated privileges required)" ->
             <<"A","c","c","e","s","s"," ","d","e","n","i","e","d"," ","(",
               "e","l","e","v","a","t","e","d"," ",
               "p","r","i","v","i","l","e","g","e","s"," ",
               "r","e","q","u","i","r","e","d",")">>
      [] s = "C:\\Windows\\notepad.exe" ->
             <<"C",":","\\","W","i","n","d","o","w","s","\\",
               "n","o","t","e","p","a","d",".","e","x","e">>
      [] s = "C:\\Windows\\System32\\cmd.exe" ->
             <<"C",":","\\","W","i","n","d","o","w","s","\\",
               "S","y","s","t","e","m","3","2","\\","c","m","d",".","e","x","e">>
      [] s = ""             -> <<>>

LowerChar(c) ==
    CASE c = "A" -> "a" [] c = "B" -> "b" [] c = "C" -> "c" [] c = "D" -> "d"
      [] c = "E" -> "e" [] c = "F" -> "f" [] c = "G" -> "g" [] c = "H" -> "h"
      [] c = "I" -> "i" [] c = "J" -> "j" [] c = "K" -> "k" [] c = "L" -> "l"
      [] c = "M" -> "m" [] c = "N" -> "n" [] c = "O" -> "o" [] c = "P" -> "p"
      [] c = "Q" -> "q" [] c = "R" -> "r" [] c = "S" -> "s" [] c = "T" -> "t"
      [] c = "U" -> "u" [] c = "V" -> "v" [] c = "W" -> "w" [] c = "X" -> "x"
      [] c = "Y" -> "y" [] c = "Z" -> "z" [] OTHER -> c

\* str::to_lowercase, on the characters
to_lowercase(cs) == [i \in 1..Len(cs) |-> LowerChar(cs[i])]

\* str::contains
contains(hay, needle) ==
    \E i \in 1..(Len(hay) - Len(needle) + 1) :
        SubSeq(hay, i, i + Len(needle) - 1) = needle

\* notification.rs: const SUSPICIOUS_PROCESSES
SUSPICIOUS_PROCESSES ==
    <<"powershell", "pwsh", "cmd", "wscript", "cscript", "mshta", "rundll32", "regsvr32">>

\* a faulty is_suspicious_process: the name is compared as it is spelled
is_suspicious_process_cased(process_name) ==
    \E k \in 1..Len(SUSPICIOUS_PROCESSES) :
        contains(process_name, Chars(SUSPICIOUS_PROCESSES[k]))

\* notification.rs: is_suspicious_process, on the characters of process_name
is_suspicious_process(process_name) ==
    LET name_lower == to_lowercase(process_name)
    IN  \E k \in 1..Len(SUSPICIOUS_PROCESSES) :
            contains(name_lower, Chars(SUSPICIOUS_PROCESSES[k]))

\* ------------------------------------------------------- the OS: processes
\* What the Win32 calls of process_info.rs answer.  A process is known by its
\* toolhelp snapshot entry (exe, parent), by the image path a handle gives, and
\* by the rights OpenProcess grants: "full" (query + vm_read), "query"
\* (query only) or "none".

None == "None"

\* Option<u32>::None of get_parent_process_id
NoPid == -1

ProcTable ==
    (4  :> [exe |-> "explorer.exe", path |-> "C:\\Windows\\explorer.exe",
            parent |-> 2, access |-> "full"]) @@
    (10 :> [exe |-> "powershell.exe", path |-> "C:\\Windows\\System32\\powershell.exe",
            parent |-> 4, access |-> "full"]) @@
    (20 :> [exe |-> "notepad.exe", path |-> "C:\\Windows\\notepad.exe",
            parent |-> 4, access |-> "full"]) @@
    (30 :> [exe |-> "cmd.exe", path |-> "C:\\Windows\\System32\\cmd.exe",
            parent |-> 10, access |-> "full"]) @@
    (40 :> [exe |-> "Explorer.EXE", path |-> "C:\\Windows\\Explorer.EXE",
            parent |-> 2, access |-> "full"]) @@
    \* two processes that name each other as parent, and one that names itself
    (50 :> [exe |-> "notepad.exe", path |-> "C:\\Windows\\notepad.exe",
            parent |-> 51, access |-> "full"]) @@
    (51 :> [exe |-> "cmd.exe", path |-> "C:\\Windows\\System32\\cmd.exe",
            parent |-> 50, access |-> "full"]) @@
    (52 :> [exe |-> "notepad.exe", path |-> "C:\\Windows\\notepad.exe",
            parent |-> 52, access |-> "full"]) @@
    \* a chain of five processes below the System process
    (60 :> [exe |-> "notepad.exe", path |-> "C:\\Windows\\notepad.exe",
            parent |-> 61, access |-> "full"]) @@
    (61 :> [exe |-> "cmd.exe", path |-> "C:\\Windows\\System32\\cmd.exe",
            parent |-> 62, access |-> "full"]) @@
    (62 :> [exe |-> "cmd.exe", path |-> "C:\\Windows\\System32\\cmd.exe",
            parent |-> 63, access |-> "full"]) @@
    (63 :> [exe |-> "cmd.exe", path |-> "C:\\Windows\\System32\\cmd.exe",
            parent |-> 64, access |-> "full"]) @@
    (64 :> [exe |-> "explorer.exe", path |-> "C:\\Windows\\explorer.exe",
            parent |-> 0, access |-> "full"]) @@
    \* processes that may not be opened with query+read rights: neither way,
    \* query-only with a path, query-only without a path
    (70 :> [exe |-> "notepad.exe", path |-> "C:\\Windows\\notepad.exe",
            parent |-> 61, access |-> "none"]) @@
    (71 :> [exe |-> "notepad.exe", path |-> "C:\\Windows\\notepad.exe",
            parent |-> 70, access |-> "query"]) @@
    (72 :> [exe |-> "notepad.exe", path |-> "",
            parent |-> 0, access |-> "query"]) @@
    \* a process whose parent has ended, and one whose path cannot be read
    (73 :> [exe |-> "notepad.exe", path |-> "C:\\Windows\\notepad.exe",
            parent |-> 99, access |-> "full"]) @@
    (74 :> [exe |-> "notepad.exe", path |-> "",
            parent |-> 71, access |-> "full"]) @@
    [pid \in 1001..(1000 + MaxPids) |->
        [exe |-> "notepad.exe", path |-> "C:\\Windows\\notepad.exe",
         parent |-> 4, access |-> "full"]]

\* GetWindowThreadProcessId, GetWindowTextW, GetClassNameW per window handle;
\* pid 0: the window is gone.
WinTable ==
    (1 :> [pid |-> 10, title |-> "Windows PowerShell", class |-> "ConsoleWindowClass"]) @@
    (2 :> [pid |-> 20, title |-> "", class |-> "Notepad"]) @@
    (3 :> [pid |-> 4,  title |-> "Program Manager", class |-> "Progman"]) @@
    (4 :> [pid |-> 30, title |-> "cmd", class |-> "ConsoleWindowClass"]) @@
    (5 :> [pid |-> 0,  title |-> "", class |-> ""]) @@
    (6 :> [pid |-> 40, title |-> "Documents", class |-> "CabinetWClass"]) @@
    (7 :> [pid |-> 20, title |-> "", class |-> "Shell_TrayWnd"]) @@
    (8  :> [pid |-> 50, title |-> "", class |-> "Notepad"]) @@
    (9  :> [pid |-> 52, title |-> "", class |-> "Notepad"]) @@
    (10 :> [pid |-> 60, title |-> "", class |-> "Notepad"]) @@
    (11 :> [pid |-> 70, title |-> "", class |-> "Notepad"]) @@
    (12 :> [pid |-> 71, title |-> "", class |-> "Notepad"]) @@
    (13 :> [pid |-> 72, title |-> "", class |-> "Notepad"]) @@
    (14 :> [pid |-> 73, title |-> "", class |-> "Notepad"]) @@
    (15 :> [pid |-> 74, title |-> "", class |-> "Notepad"]) @@
    (16 :> [pid |-> 64, title |-> "Program Manager", class |-> "Progman"]) @@
    (17 :> [pid |-> 99, title |-> "", class |-> "Notepad"]) @@
    [hwnd \in 101..(100 + MaxPids) |->
        [pid |-> 900 + hwnd, title |-> "", class |-> "Notepad"]]

\* Path::file_stem(..).and_then(to_str), None when the path has no file name
file_stem(path) ==
    CASE path = "C:\\Windows\\explorer.exe"              -> "explorer"
      [] path = "C:\\Windows\\System32\\powershell.exe"  -> "powershell"
      [] path = "C:\\Windows\\notepad.exe"               -> "notepad"
      [] path = "C:\\Windows\\System32\\cmd.exe"         -> "cmd"
      [] path = "explorer.exe"                           -> "explorer"
      [] path = "C:\\Windows\\Explorer.EXE"              -> "Explorer"
      [] path = "Explorer.EXE"                           -> "Explorer"
      [] path = "powershell.exe"                         -> "powershell"
      [] path = "notepad.exe"                            -> "notepad"
      [] path = "cmd.exe"                                -> "cmd"
      [] path = ""                                       -> None

\* process_info.rs: get_window_title
get_window_title(hwnd) == WinTable[hwnd].title

\* process_info.rs: get_window_class
get_window_class(hwnd) == WinTable[hwnd].class

\* OpenProcess(PROCESS_QUERY_INFORMATION | PROCESS_VM_READ) succeeds
OpenFull(pid, table) == pid \in DOMAIN table /\ table[pid].access = "full"

\* OpenProcess(PROCESS_QUERY_INFORMATION) succeeds
OpenQuery(pid, table) == pid \in DOMAIN table /\ table[pid].access \in {"full", "query"}

\* process_info.rs: get_process_path, on an open handle of pid
get_process_path(pid, table) == table[pid].path

\* the name derived from a path: file_stem, or "Unknown"
NameOfPath(path) == IF file_stem(path) = None THEN "Unknown" ELSE file_stem(path)

\* process_info.rs: get_parent_process_id
get_parent_process_id(process_id, table) ==
    IF process_id \in DOMAIN table THEN table[process_id].parent ELSE NoPid

\* process_info.rs: get_process_name_from_snapshot
get_process_name_from_snapshot(process_id, table) ==
    IF process_id \in DOMAIN table
    THEN (IF file_stem(table[process_id].exe) = None
          THEN table[process_id].exe
          ELSE file_stem(table[process_id].exe))
    ELSE None

\* process_info.rs: get_parent_process_info, as <<name, pid, path>>
get_parent_process_info(process_id, table) ==
    LET parent_id == get_parent_process_id(process_id, table)
    IN  IF parent_id = NoPid THEN <<"Unknown", 0, "">>
        ELSE IF parent_id = 0 THEN <<"System", 0, "">>
        ELSE IF OpenFull(parent_id, table)
             THEN <<NameOfPath(get_process_path(parent_id, table)), parent_id,
                    get_process_path(parent_id, table)>>
        ELSE IF get_process_name_from_snapshot(parent_id, table) # None
             THEN <<get_process_name_from_snapshot(parent_id, table), parent_id, "Access denied">>
        ELSE <<"Access denied", parent_id, "">>

\* ProcessInfo::default()
DefaultProcessInfo ==
    [process_name |-> "", process_id |-> 0, process_path |-> "",
     window_title |-> "", window_class |-> "", command_line |-> None,
     parent_process_name |-> "", parent_process_id |-> 0, parent_process_path |-> "",
     grandparent_process_name |-> "", grandparent_process_id |-> 0,
     grandparent_process_path |-> "",
     greatgrandparent_process_name |-> "", greatgrandparent_process_id |-> 0,
     greatgrandparent_process_path |-> ""]

\* a faulty WithAncestry: each level is looked up whatever the level below is
WithAncestry_unguarded(info, process_id, table) ==
    LET p  == get_parent_process_info(process_id, table)
        gp == get_parent_process_info(p[2], table)
        ggp == get_parent_process_info(gp[2], table)
    IN  [info EXCEPT !.parent_process_name = p[1],
                     !.parent_process_id = p[2],
                     !.parent_process_path = p[3],
                     !.grandparent_process_name = gp[1],
                     !.grandparent_process_id = gp[2],
                     !.grandparent_process_path = gp[3],
                     !.greatgrandparent_process_name = ggp[1],
                     !.greatgrandparent_process_id = ggp[2],
                     !.greatgrandparent_process_path = ggp[3]]

\* the three ancestry levels of get_process_info, written into info
WithAncestry(info, process_id, table) ==
    LET p  == get_parent_process_info(process_id, table)
        gp == IF p[2] > 0 THEN get_parent_process_info(p[2], table) ELSE <<"", 0, "">>
        ggp == IF p[2] > 0 /\ gp[2] > 0 THEN get_parent_process_info(gp[2], table)
               ELSE <<"", 0, "">>
    IN  [info EXCEPT !.parent_process_name = p[1],
                     !.parent_process_id = p[2],
                     !.parent_process_path = p[3],
                     !.grandparent_process_name = gp[1],
                     !.grandparent_process_id = gp[2],
                     !.grandparent_process_path = gp[3],
                     !.greatgrandparent_process_name = ggp[1],
                     !.greatgrandparent_process_id = ggp[2],
                     !.greatgrandparent_process_path = ggp[3]]

\* a faulty get_process_info: no ancestry when the process cannot be opened
get_process_info_no_ancestry(hwnd, table) ==
    LET process_id == WinTable[hwnd].pid
        base == [DefaultProcessInfo EXCEPT !.process_id = process_id]
        win  == [base EXCEPT !.window_title = get_window_title(hwnd),
                             !.window_class = get_window_class(hwnd)]
    IN  IF process_id = 0
        THEN [base EXCEPT !.process_name = "Unknown", !.process_path = "Unknown"]
        ELSE IF OpenFull(process_id, table)
        THEN WithAncestry(
                 [win EXCEPT !.process_path = get_process_path(process_id, table),
                             !.process_name = NameOfPath(get_process_path(process_id, table)),
                             !.command_line = None],
                 process_id, table)
        ELSE [win EXCEPT !.process_name = "Access denied",
                         !.process_path = "Access denied (elevated privileges required)"]

\* process_info.rs: get_process_info
get_process_info(hwnd, table) ==
    LET process_id == WinTable[hwnd].pid
        base == [DefaultProcessInfo EXCEPT !.process_id = process_id]
        win  == [base EXCEPT !.window_title = get_window_title(hwnd),
                             !.window_class = get_window_class(hwnd)]
    IN  IF process_id = 0
        THEN [base EXCEPT !.process_name = "Unknown", !.process_path = "Unknown"]
        ELSE IF OpenFull(process_id, table)
        THEN WithAncestry(
                 [win EXCEPT !.process_path = get_process_path(process_id, table),
                             !.process_name = NameOfPath(get_process_path(process_id, table)),
                             !.command_line = None],
                 process_id, table)
        ELSE LET denied == [win EXCEPT
                                !.process_name = "Access denied",
                                !.process_path = "Access denied (elevated privileges required)"]
                 retried == IF OpenQuery(process_id, table) /\ get_process_path(process_id, table) # ""
                            THEN [denied EXCEPT
                                     !.process_path = get_process_path(process_id, table),
                                     !.process_name = NameOfPath(get_process_path(process_id, table))]
                            ELSE denied
             IN  WithAncestry(retried, process_id, table)

\* ---- the handles of one get_process_info call
\* A handle is named by the place that opens it: the process itself, and per
\* ancestry level the snapshot of get_parent_process_id, the parent process,
\* and the snapshot of get_process_name_from_snapshot. CreateToolhelp32Snapshot
\* gives no handle ("failed"), a handle whose Process32FirstW fails ("empty"),
\* or a handle that can be walked ("ok").

SnapshotOutcomes == {"ok", "empty", "failed"}

SnapshotSites == {<<"snapshot of parent id", 1>>, <<"snapshot of name", 1>>,
                  <<"snapshot of parent id", 2>>, <<"snapshot of name", 2>>,
                  <<"snapshot of parent id", 3>>, <<"snapshot of name", 3>>}

Opens(h) == [op |-> "open", handle |-> h]

Closes(h) == [op |-> "CloseHandle", handle |-> h]

\* a faulty snapshot walk: the handle stays open when the walk finds nothing
snapshot_handles_leaking(site, outcome, found) ==
    IF outcome = "failed" THEN <<>>
    ELSE IF outcome = "ok" /\ found THEN <<Opens(site), Closes(site)>>
    ELSE <<Opens(site)>>

\* get_parent_process_id and get_process_name_from_snapshot: the snapshot
\* handle is closed where the entry is found, and after the loop otherwise
snapshot_handles(site, outcome, found) ==
    IF outcome = "failed" THEN <<>>
    ELSE <<Opens(site), Closes(site)>>

\* get_parent_process_id, with its snapshot's outcome
parent_id_of(process_id, table, outcome) ==
    IF outcome = "ok" THEN get_parent_process_id(process_id, table) ELSE NoPid

\* the parent_id that get_parent_process_info returns at one level
level_pid(process_id, table, snaps, level) ==
    LET parent_id == parent_id_of(process_id, table, snaps[<<"snapshot of parent id", level>>])
    IN  IF parent_id = NoPid THEN 0 ELSE parent_id

\* get_parent_process_info: the handles it opens and closes
get_parent_process_info_handles(process_id, table, snaps, level) ==
    LET outcome == snaps[<<"snapshot of parent id", level>>]
        parent_id == parent_id_of(process_id, table, outcome)
    IN  snapshot_handles(<<"snapshot of parent id", level>>, outcome,
                         process_id \in DOMAIN table)
        \o (IF parent_id = NoPid \/ parent_id = 0 THEN <<>>
            ELSE IF OpenFull(parent_id, table)
            THEN <<Opens(<<"process", level>>), Closes(<<"process", level>>)>>
            ELSE snapshot_handles(<<"snapshot of name", level>>,
                                  snaps[<<"snapshot of name", level>>],
                                  parent_id \in DOMAIN table))

\* get_process_info: the handles of the three ancestry levels
ancestry_handles(process_id, table, snaps) ==
    LET parent_id == level_pid(process_id, table, snaps, 1)
        gp_id == IF parent_id > 0 THEN level_pid(parent_id, table, snaps, 2) ELSE 0
    IN  get_parent_process_info_handles(process_id, table, snaps, 1)
        \o (IF parent_id > 0
            THEN get_parent_process_info_handles(parent_id, table, snaps, 2)
                 \o (IF gp_id > 0
                     THEN get_parent_process_info_handles(gp_id, table, snaps, 3)
                     ELSE <<>>)
            ELSE <<>>)

\* get_process_info: the handles it opens and closes, in order
get_process_info_handles(hwnd, table, snaps) ==
    LET process_id == WinTable[hwnd].pid
    IN  IF process_id = 0 THEN <<>>
        ELSE IF OpenFull(process_id, table)
        THEN <<Opens(<<"process", 0>>)>>
             \o ancestry_handles(process_id, table, snaps)
             \o <<Closes(<<"process", 0>>)>>
        ELSE (IF OpenQuery(process_id, table)
              THEN <<Opens(<<"process, query only", 0>>),
                     Closes(<<"process, query only", 0>>)>>
              ELSE <<>>)
             \o ancestry_handles(process_id, table, snaps)

\* the process table as it was at the start, and as it is after notepad has
\* ended and its process id has been given to a new cmd.exe
ProcTables ==
    <<ProcTable,
      [ProcTable EXCEPT ![20] = [exe |-> "cmd.exe", path |-> "C:\\Windows\\System32\\cmd.exe",
                                 parent |-> 4, access |-> "full"]]>>

\* what get_process_info answers for each window, per process table
ProcessInfoOf ==
    [g \in DOMAIN ProcTables |->
        [hwnd \in DOMAIN WinTable |-> get_process_info(hwnd, ProcTables[g])]]

\* a faulty CacheHit: an entry never gets too old
CacheHit_no_expiry(cache, process_id, now) ==
    /\ process_id # 0
    /\ process_id \in DOMAIN cache

\* process_info.rs: get_process_info_cached, the cache hit test
CacheHit(cache, process_id, now) ==
    /\ process_id # 0
    /\ process_id \in DOMAIN cache
    /\ now - cache[process_id].at < CACHE_TTL

\* process_info.rs: get_process_info_cached, the value returned
CachedInfo(cache, hwnd, now, g) ==
    LET process_id == WinTable[hwnd].pid
    IN  IF process_id = 0 THEN ProcessInfoOf[g][hwnd]
        ELSE IF CacheHit(cache, process_id, now)
        THEN [cache[process_id].info EXCEPT
                 !.window_title = get_window_title(hwnd),
                 !.window_class = get_window_class(hwnd)]
        ELSE ProcessInfoOf[g][hwnd]

\* a faulty CachedCache: a hit stamps the entry with the time of the hit
CachedCache_renewing(cache, hwnd, now, g) ==
    LET process_id == WinTable[hwnd].pid
    IN  IF process_id = 0 THEN cache
        ELSE IF CacheHit(cache, process_id, now)
        THEN [cache EXCEPT ![process_id].at = now]
        ELSE [p \in DOMAIN cache \cup {process_id} |->
                 IF p = process_id
                 THEN [info |-> ProcessInfoOf[g][hwnd], at |-> now]
                 ELSE cache[p]]

\* process_info.rs: get_process_info_cached, the cache it leaves
CachedCache(cache, hwnd, now, g) ==
    LET process_id == WinTable[hwnd].pid
        inserted == [p \in DOMAIN cache \cup {process_id} |->
                        IF p = process_id
                        THEN [info |-> ProcessInfoOf[g][hwnd], at |-> now]
                        ELSE cache[p]]
        kept == {p \in DOMAIN inserted : now - inserted[p].at < CACHE_TTL}
    IN  IF process_id = 0 \/ CacheHit(cache, process_id, now) THEN cache
        ELSE IF Cardinality(DOMAIN inserted) > CACHE_SWEEP_LEN
        THEN [p \in kept |-> inserted[p]]
        ELSE inserted

\* --------------------------------------------------------------- the state

VARIABLES
    clock,                \* system time, ms since the epoch
    pcMain,               \* run_with_tray_check's position
    pcWorker,             \* event_worker's position
    pcSink,               \* log_worker's position
    pcTray,               \* the tray exit checker thread's position
    pcCtrlC,              \* the CTRL+C handler: unset, armed, post, done
    SHOULD_EXIT,          \* tray.rs: static SHOULD_EXIT
    SHUTDOWN,             \* static SHUTDOWN
    MESSAGE_THREAD_ID,    \* static MESSAGE_THREAD_ID: 0 while unset
    thread_msgs,          \* messages posted to the message-loop thread
    hooks,                \* the Vec<HWINEVENTHOOK> set_hooks returned
    MOUSE_HOOK_PTR,       \* static MOUSE_HOOK_PTR: 0 while unset
    registered,           \* the subscriptions the OS holds for this process
    unhooked,             \* per subscription, the unhook calls made for it
    LAST_MOUSE_CLICK_MS,  \* static LAST_MOUSE_CLICK_MS
    queueA,               \* channel of WindowEvent
    queueB,               \* channel of LogEntry
    event_senders,        \* live Sender<WindowEvent> handles
    log_senders,          \* live Sender<LogEntry> handles
    log_receiver,         \* the Receiver<LogEntry> is alive
    last_events,          \* event_worker's dedup window
    PROCESS_CACHE,        \* process_info.rs: static PROCESS_CACHE
    file,                 \* the session log file, item by item
    entry_count,          \* log_worker's entry_count
    unflushed,            \* log_worker: entries written to writer since its last flush
    gui,                  \* history: set_log_file_path and add_log_entry calls
    log_file_path,        \* log_worker: the session file it opened, or NoPath
    log_dir,              \* the files of the log directory, least recently modified first
    os,                   \* the OS: which of ProcTables is the process table now
    captured,             \* history: every WindowEvent a callback built
    received,             \* history: seq numbers the Worker dequeued
    accepted,             \* history: seq numbers the Worker did not drop
    offered,              \* history: LogEntries handed to try_send, and the result
    alerts,               \* history: set_alert calls
    screenshots,          \* history: capture_alert_screenshots calls
    arg,                  \* a direct call of a function: its argument
    ret,                  \* a direct call of a function: <<result>> once it returned
    ALERT_ACTIVE,         \* alert_window.rs: static ALERT_ACTIVE
    ALERT_MESSAGE,        \* alert_window.rs: static ALERT_MESSAGE
    EVENT_COUNT,          \* alert_window.rs: static EVENT_COUNT
    pcSetAlert,           \* the caller inside set_alert: <<>> when in no call
    pcAddLog,             \* the caller inside add_log_entry: <<>> when in no call
    clear_threads,        \* the threads set_alert spawned, in spawn order
    alert_calls           \* history: set_alert calls and clear_alert steps

vars == <<clock, pcMain, pcWorker, pcSink, pcTray, pcCtrlC, SHOULD_EXIT, SHUTDOWN,
          MESSAGE_THREAD_ID, thread_msgs, hooks, MOUSE_HOOK_PTR, registered, unhooked,
          LAST_MOUSE_CLICK_MS, queueA, queueB, event_senders, log_senders,
          log_receiver, last_events, PROCESS_CACHE, file, entry_count, unflushed, gui,
          log_file_path, log_dir, os,
          captured, received, accepted, offered, alerts, screenshots,
          arg, ret,
          ALERT_ACTIVE, ALERT_MESSAGE, EVENT_COUNT, pcSetAlert, pcAddLog,
          clear_threads, alert_calls>>

controlVars == <<pcMain, pcTray, pcCtrlC, SHOULD_EXIT, SHUTDOWN, MESSAGE_THREAD_ID,
                 thread_msgs, hooks, MOUSE_HOOK_PTR, registered, unhooked>>

workerVars == <<pcWorker, last_events, PROCESS_CACHE, received, accepted, offered,
                alerts, screenshots, log_senders>>

sinkVars == <<pcSink, file, entry_count, unflushed, log_receiver, gui, log_file_path>>

callVars == <<arg, ret>>

\* the alert window's header state and the calls into it
alertVars == <<ALERT_ACTIVE, ALERT_MESSAGE, EVENT_COUNT, pcSetAlert, pcAddLog,
               clear_threads, alert_calls>>

\* everything but the direct call
programVars == <<alertVars, clock, log_dir, os, controlVars, workerVars, sinkVars, LAST_MOUSE_CLICK_MS,
                 queueA, queueB, event_senders, captured>>

\* the thread id GetCurrentThreadId gives the main thread
MainThreadId == 1

\* The process is running: run_with_tray_check has not returned.  When it
\* returns, main returns and every other thread ends with the process.
Alive == pcMain \notin {"done", "failed"}

\* ------------------------------------------------------------ event kinds

\* event_hook.rs: the Windows event constants
EVENT_SYSTEM_FOREGROUND == 3
EVENT_OBJECT_CREATE == 32768
EVENT_OBJECT_SHOW == 32770
EVENT_OBJECT_FOCUS == 32773
EVENT_SYSTEM_MINIMIZESTART == 22
EVENT_SYSTEM_MINIMIZEEND == 23
EVENT_OBJECT_REORDER == 32772

\* winuser.h values of the pointer messages
WM_MOUSEMOVE == 512
WM_LBUTTONDOWN == 513
WM_LBUTTONUP == 514
WM_RBUTTONDOWN == 516
WM_MBUTTONDOWN == 519

\* event_hook.rs: EventType::as_str
as_str(event_type) ==
    CASE event_type = "Foreground"    -> "FOCUS"
      [] event_type = "Created"       -> "CREATED"
      [] event_type = "Shown"         -> "SHOWN"
      [] event_type = "Focus"         -> "FOCUS"
      [] event_type = "Minimized"     -> "MINIMIZED"
      [] event_type = "Restored"      -> "RESTORED"
      [] event_type = "ZOrderChanged" -> "Z-ORDER"

\* event_hook.rs: win_event_proc, the match on the raw event code
EventTypeOf(event) ==
    CASE event = EVENT_SYSTEM_FOREGROUND    -> "Foreground"
      [] event = EVENT_OBJECT_CREATE        -> "Created"
      [] event = EVENT_OBJECT_SHOW          -> "Shown"
      [] event = EVENT_OBJECT_FOCUS         -> "Focus"
      [] event = EVENT_SYSTEM_MINIMIZESTART -> "Minimized"
      [] event = EVENT_SYSTEM_MINIMIZEEND   -> "Restored"
      [] event = EVENT_OBJECT_REORDER       -> "ZOrderChanged"
      [] OTHER                              -> None

\* event_hook.rs: set_hooks, the six SetWinEventHook ranges
HookRanges ==
    [FOREGROUND |-> EVENT_SYSTEM_FOREGROUND..EVENT_SYSTEM_FOREGROUND,
     CREATE     |-> EVENT_OBJECT_CREATE..EVENT_OBJECT_CREATE,
     SHOW       |-> EVENT_OBJECT_SHOW..EVENT_OBJECT_SHOW,
     FOCUS      |-> EVENT_OBJECT_FOCUS..EVENT_OBJECT_FOCUS,
     MINIMIZE   |-> EVENT_SYSTEM_MINIMIZESTART..EVENT_SYSTEM_MINIMIZEEND,
     REORDER    |-> EVENT_OBJECT_REORDER..EVENT_OBJECT_REORDER]

WinEventHooks == DOMAIN HookRanges

\* the OS delivers `event` to win_event_proc while a hook covering it is held
Delivered(event) == \E h \in registered \cap WinEventHooks : event \in HookRanges[h]

\* ---------------------------------------------------------------- channels

\* a faulty try_send: the message is put at the head of the channel
try_send_front(q, msg, connected) ==
    IF connected /\ Len(q) < CHANNEL_CAPACITY THEN <<msg>> \o q ELSE q

\* a faulty try_send: a full channel gives up its oldest message for the new
try_send_evicting(q, msg, connected) ==
    IF ~connected THEN q
    ELSE IF Len(q) < CHANNEL_CAPACITY THEN Append(q, msg)
    ELSE Append(Tail(q), msg)

\* crossbeam_channel: Sender::try_send on a bounded channel.  A full or
\* disconnected channel gives the message back as an error at once.
try_send_ok(q, connected) == connected /\ Len(q) < CHANNEL_CAPACITY

try_send(q, msg, connected) == IF try_send_ok(q, connected) THEN Append(q, msg) ELSE q

\* a faulty recv: the newest message is handed out first
recv_newest(q) == <<q[Len(q)], SubSeq(q, 1, Len(q) - 1)>>

\* crossbeam_channel: Receiver::recv / recv_timeout on a channel that holds a
\* message: <<the message handed out, the channel afterwards>>
recv(q) == <<Head(q), Tail(q)>>

\* ------------------------------------------------------------- the capture

\* the WindowEvent win_event_proc / log_current_foreground builds.  Two fields
\* are history only: seq, the position of the event in the order in which the
\* callbacks ran, and click, the time of the last recorded pointer click when
\* the callback ran.
WindowEvent(event_type, hwnd) ==
    [event_type |-> event_type, hwnd |-> hwnd, timestamp |-> clock,
     seq |-> Len(captured) + 1, click |-> LAST_MOUSE_CLICK_MS]

\* a faulty PassesFilter: a window of any kind of event must be visible
PassesFilter_visible_only(event, id_object, visible, iconic) ==
    /\ id_object = 0
    /\ EventTypeOf(event) # None
    /\ visible
    /\ (EventTypeOf(event) \in {"Created", "Shown"} => ~iconic)

\* event_hook.rs: win_event_proc, the pre-filter: does the callback enqueue?
PassesFilter(event, id_object, visible, iconic) ==
    /\ id_object = 0
    /\ EventTypeOf(event) # None
    /\ (EventTypeOf(event) \in {"Created", "Shown"} => visible /\ ~iconic)

\* event_hook.rs: win_event_proc.  The OS calls it on the message-loop thread,
\* from inside GetMessageW, for an event of a range that is hooked.
win_event_proc(event, hwnd, id_object, visible, iconic) ==
    /\ Alive
    /\ pcMain = "GetMessage"
    /\ Delivered(event)
    /\ IF PassesFilter(event, id_object, visible, iconic)
       THEN LET window_event == WindowEvent(EventTypeOf(event), hwnd)
            IN  /\ captured' = Append(captured, window_event)
                /\ queueA' = try_send(queueA, window_event, pcWorker # "done")
       ELSE UNCHANGED <<captured, queueA>>
    /\ UNCHANGED <<alertVars, callVars, os, log_dir, clock, controlVars, workerVars, sinkVars, LAST_MOUSE_CLICK_MS,
                   queueB, event_senders>>

\* event_hook.rs: mouse_hook_proc.  Called on the message-loop thread while the
\* low-level mouse hook is held.
mouse_hook_proc(code, msg) ==
    /\ Alive
    /\ pcMain = "GetMessage"
    /\ "MOUSE" \in registered
    /\ LAST_MOUSE_CLICK_MS' =
           IF code >= 0 /\ msg \in {WM_LBUTTONDOWN, WM_RBUTTONDOWN, WM_MBUTTONDOWN}
           THEN clock
           ELSE LAST_MOUSE_CLICK_MS
    /\ UNCHANGED <<alertVars, callVars, os, log_dir, clock, controlVars, workerVars, sinkVars, queueA, queueB,
                   event_senders, captured>>

\* a faulty was_recent_mouse_click: a timestamp never written counts as a
\* recent click
was_recent_mouse_click_unset_is_recent(last_click, now) ==
    last_click = 0 \/ SaturatingSub(now, last_click) < CLICK_WINDOW_MS

\* event_hook.rs: was_recent_mouse_click, at system time now
was_recent_mouse_click(last_click, now) ==
    SaturatingSub(now, last_click) < CLICK_WINDOW_MS

\* time passes
Tick(d, limit) ==
    /\ Alive
    /\ clock + d <= limit
    /\ clock' = clock + d
    /\ UNCHANGED <<alertVars, callVars, os, log_dir, controlVars, workerVars, sinkVars, LAST_MOUSE_CLICK_MS, queueA,
                   queueB, event_senders, captured>>

\* ------------------------------------------------------------- the Worker

\* a faulty is_duplicate: the interval closed at 100 ms
is_duplicate_closed(window, event) ==
    \E i \in 1..Len(window) :
        /\ window[i][1] = event.hwnd
        /\ window[i][2] = event.event_type
        /\ Abs(event.timestamp - window[i][3]) <= DEDUP_WINDOW_MS

\* a faulty is_duplicate: only an event of the same millisecond is a duplicate
is_duplicate_same_instant(window, event) ==
    \E i \in 1..Len(window) :
        /\ window[i][1] = event.hwnd
        /\ window[i][2] = event.event_type
        /\ event.timestamp = window[i][3]

\* event_worker: the duplicate check against the dedup window
is_duplicate(window, event) ==
    \E i \in 1..Len(window) :
        /\ window[i][1] = event.hwnd
        /\ window[i][2] = event.event_type
        /\ Abs(event.timestamp - window[i][3]) < DEDUP_WINDOW_MS

\* a faulty remember: a full window gives up its newest entry for the new one
remember_evicts_newest(window, event) ==
    LET entry == <<event.hwnd, event.event_type, event.timestamp>>
    IN  IF Len(window) >= DEDUP_CAPACITY
        THEN Append(SubSeq(window, 1, Len(window) - 1), entry)
        ELSE Append(window, entry)

\* event_worker: last_events.push(..); if len > 10 { remove(0) }
remember(window, event) ==
    LET pushed == Append(window, <<event.hwnd, event.event_type, event.timestamp>>)
    IN  IF Len(pushed) > DEDUP_CAPACITY THEN Tail(pushed) ELSE pushed

\* a faulty dominated_event: Created events do not count
dominated_event_no_created(event_type) == event_type \in {"Foreground", "Shown"}

\* a faulty dominated_event: Focus events count as well
dominated_event_or_focus(event_type) ==
    event_type \in {"Foreground", "Shown", "Created", "Focus"}

\* event_worker: matches!(event_type, Foreground | Shown | Created)
dominated_event(event_type) == event_type \in {"Foreground", "Shown", "Created"}

\* a faulty is_ignored: the process name is compared as it is spelled
is_ignored_cased(proc_info) ==
    \/ proc_info.process_name \in {"pc_watcher", "pc_watcher.exe", "explorer", "explorer.exe"}
    \/ proc_info.window_class \in {"Shell_TrayWnd", "Progman", "PCWatcherAlert",
                                    "PCWatcherDetails", "PCWatcherTray"}

\* event_worker: the allow-list of the focus-without-click alert
is_ignored(proc_info) ==
    LET proc_lower == to_lowercase(Chars(proc_info.process_name))
    IN  \/ proc_lower = Chars("pc_watcher")
        \/ proc_lower = Chars("pc_watcher.exe")
        \/ proc_lower = Chars("explorer")
        \/ proc_lower = Chars("explorer.exe")
        \/ proc_info.window_class = "Shell_TrayWnd"
        \/ proc_info.window_class = "Progman"
        \/ proc_info.window_class = "PCWatcherAlert"
        \/ proc_info.window_class = "PCWatcherDetails"
        \/ proc_info.window_class = "PCWatcherTray"

\* every ProcessInfo get_process_info_cached can return: a resolved one, with
\* the title and class of the window asked for, a window of the same process
ProcessInfos ==
    UNION {{[ProcessInfoOf[t][g] EXCEPT !.window_title = get_window_title(h),
                                        !.window_class = get_window_class(h)] :
               h \in {w \in DOMAIN WinTable : WinTable[w].pid = WinTable[g].pid}} :
           t \in DOMAIN ProcTables, g \in DOMAIN WinTable}

\* is_suspicious_process and the allow-list, worked out once per ProcessInfo
SuspiciousInfo == [info \in ProcessInfos |-> is_suspicious_process(Chars(info.process_name))]

IgnoredInfo == [info \in ProcessInfos |-> is_ignored(info)]

\* a faulty AlertLabels: the click test comes before the name test
AlertLabels_click_first(event, proc_info, recent_click) ==
    LET focus_without_click == event.event_type = "Foreground" /\ ~recent_click
    IN  IF focus_without_click /\ ~IgnoredInfo[proc_info]
        THEN <<[label |-> <<proc_info.process_name, " (no click!)">>,
                 path |-> proc_info.process_path, seq |-> event.seq]>>
        ELSE IF dominated_event(event.event_type) /\ SuspiciousInfo[proc_info]
        THEN <<[label |-> <<proc_info.process_name>>,
                 path |-> proc_info.process_path, seq |-> event.seq]>>
        ELSE <<>>

\* event_worker: the set_alert calls it makes for this event, none or one.  A
\* label is the pieces format! joins: <<name>> or <<name, " (no click!)">>.
AlertLabels(event, proc_info, recent_click) ==
    LET focus_without_click == event.event_type = "Foreground" /\ ~recent_click
    IN  IF dominated_event(event.event_type) /\ SuspiciousInfo[proc_info]
        THEN <<[label |-> <<proc_info.process_name>>,
                 path |-> proc_info.process_path, seq |-> event.seq]>>
        ELSE IF focus_without_click /\ ~IgnoredInfo[proc_info]
        THEN <<[label |-> <<proc_info.process_name, " (no click!)">>,
                 path |-> proc_info.process_path, seq |-> event.seq]>>
        ELSE <<>>

\* a faulty LogEntryOf: the entry is stamped with the time of processing and
\* labelled with the name of the enum variant
LogEntryOf_restamped(event, proc_info) ==
    [timestamp |-> clock,
     event_type |-> event.event_type,
     process_name |-> proc_info.process_name,
     process_id |-> proc_info.process_id,
     process_path |-> proc_info.process_path,
     window_title |-> proc_info.window_title,
     window_class |-> proc_info.window_class,
     command_line |-> proc_info.command_line,
     parent_process_name |-> proc_info.parent_process_name,
     parent_process_id |-> proc_info.parent_process_id,
     parent_process_path |-> proc_info.parent_process_path,
     grandparent_process_name |-> proc_info.grandparent_process_name,
     grandparent_process_id |-> proc_info.grandparent_process_id,
     grandparent_process_path |-> proc_info.grandparent_process_path,
     greatgrandparent_process_name |-> proc_info.greatgrandparent_process_name,
     greatgrandparent_process_id |-> proc_info.greatgrandparent_process_id,
     greatgrandparent_process_path |-> proc_info.greatgrandparent_process_path,
     seq |-> event.seq]

\* event_worker: the LogEntry built from the event and the resolved process
LogEntryOf(event, proc_info) ==
    [timestamp |-> event.timestamp,
     event_type |-> as_str(event.event_type),
     process_name |-> proc_info.process_name,
     process_id |-> proc_info.process_id,
     process_path |-> proc_info.process_path,
     window_title |-> proc_info.window_title,
     window_class |-> proc_info.window_class,
     command_line |-> proc_info.command_line,
     parent_process_name |-> proc_info.parent_process_name,
     parent_process_id |-> proc_info.parent_process_id,
     parent_process_path |-> proc_info.parent_process_path,
     grandparent_process_name |-> proc_info.grandparent_process_name,
     grandparent_process_id |-> proc_info.grandparent_process_id,
     grandparent_process_path |-> proc_info.grandparent_process_path,
     greatgrandparent_process_name |-> proc_info.greatgrandparent_process_name,
     greatgrandparent_process_id |-> proc_info.greatgrandparent_process_id,
     greatgrandparent_process_path |-> proc_info.greatgrandparent_process_path,
     seq |-> event.seq]

\* a faulty WorkerCheckShutdown: on shutdown the Worker takes the event at the
\* head of queue A with it and leaves
WorkerCheckShutdown_abandons ==
    /\ Alive
    /\ pcWorker = "loop"
    /\ IF SHUTDOWN
       THEN /\ pcWorker' = "done"
            /\ log_senders' = log_senders - 1
            /\ IF queueA # <<>>
               THEN /\ queueA' = recv(queueA)[2]
                    /\ received' = Append(received, recv(queueA)[1].seq)
               ELSE UNCHANGED <<queueA, received>>
       ELSE /\ pcWorker' = "recv"
            /\ UNCHANGED <<log_senders, queueA, received>>
    /\ UNCHANGED <<alertVars, callVars, os, log_dir, clock, controlVars, sinkVars, LAST_MOUSE_CLICK_MS, queueB,
                   event_senders, last_events, PROCESS_CACHE, captured,
                   accepted, offered, alerts, screenshots>>

\* a faulty WorkerCheckShutdown: the flag is obeyed only once queue A is empty
WorkerCheckShutdown_drains ==
    /\ Alive
    /\ pcWorker = "loop"
    /\ IF SHUTDOWN /\ queueA = <<>>
       THEN /\ pcWorker' = "done"
            /\ log_senders' = log_senders - 1
       ELSE /\ pcWorker' = "recv"
            /\ UNCHANGED log_senders
    /\ UNCHANGED <<alertVars, callVars, os, log_dir, clock, controlVars, sinkVars, LAST_MOUSE_CLICK_MS, queueA, queueB,
                   event_senders, last_events, PROCESS_CACHE, captured, received,
                   accepted, offered, alerts, screenshots>>

\* event_worker: while !SHUTDOWN.load(..)
WorkerCheckShutdown ==
    /\ Alive
    /\ pcWorker = "loop"
    /\ IF SHUTDOWN
       THEN /\ pcWorker' = "done"
            /\ log_senders' = log_senders - 1
       ELSE /\ pcWorker' = "recv"
            /\ UNCHANGED log_senders
    /\ UNCHANGED <<alertVars, callVars, os, log_dir, clock, controlVars, sinkVars, LAST_MOUSE_CLICK_MS, queueA, queueB,
                   event_senders, last_events, PROCESS_CACHE, captured, received,
                   accepted, offered, alerts, screenshots>>

\* a faulty after_try_send: the result is unwrapped, an Err ends the thread
after_try_send_unwrap(sent) == IF sent THEN "loop" ELSE "done"

\* event_worker: let _ = log_sender.try_send(log_entry): whatever the result,
\* the Worker goes on with its loop
after_try_send(sent) == "loop"

\* a faulty WorkerProcessEvent: a duplicate is remembered in the dedup window
WorkerProcessEvent_remembers_duplicate ==
    /\ Alive
    /\ pcWorker = "recv"
    /\ queueA # <<>>
    /\ LET event == recv(queueA)[1]
           proc_info == CachedInfo(PROCESS_CACHE, event.hwnd, clock, os)
           labels == AlertLabels(event, proc_info,
                                 was_recent_mouse_click(LAST_MOUSE_CLICK_MS, clock))
           log_entry == LogEntryOf(event, proc_info)
       IN  /\ queueA' = recv(queueA)[2]
           /\ received' = Append(received, event.seq)
           /\ IF is_duplicate(last_events, event)
              THEN /\ last_events' = remember(last_events, event)
                   /\ UNCHANGED <<PROCESS_CACHE, accepted, offered, alerts,
                                  screenshots, queueB>>
              ELSE /\ last_events' = remember(last_events, event)
                   /\ accepted' = Append(accepted, event.seq)
                   /\ PROCESS_CACHE' = CachedCache(PROCESS_CACHE, event.hwnd, clock, os)
                   /\ alerts' = alerts \o labels
                   /\ screenshots' = screenshots \o
                          [i \in 1..Len(labels) |->
                              [name |-> proc_info.process_name, seq |-> event.seq]]
                   /\ offered' = Append(offered,
                          [entry |-> log_entry, sent |-> try_send_ok(queueB, log_receiver)])
                   /\ queueB' = try_send(queueB, log_entry, log_receiver)
           /\ pcWorker' = IF is_duplicate(last_events, event) THEN "loop"
                          ELSE after_try_send(try_send_ok(queueB, log_receiver))
    /\ UNCHANGED <<alertVars, callVars, os, log_dir, clock, controlVars, sinkVars, LAST_MOUSE_CLICK_MS, event_senders,
                   log_senders, captured>>

\* event_worker: recv_timeout gave Ok(event); the whole match arm
WorkerProcessEvent ==
    /\ Alive
    /\ pcWorker = "recv"
    /\ queueA # <<>>
    /\ LET event == recv(queueA)[1]
           proc_info == CachedInfo(PROCESS_CACHE, event.hwnd, clock, os)
           labels == AlertLabels(event, proc_info,
                                 was_recent_mouse_click(LAST_MOUSE_CLICK_MS, clock))
           log_entry == LogEntryOf(event, proc_info)
       IN  /\ queueA' = recv(queueA)[2]
           /\ received' = Append(received, event.seq)
           /\ IF is_duplicate(last_events, event)
              THEN UNCHANGED <<last_events, PROCESS_CACHE, accepted, offered, alerts,
                               screenshots, queueB>>
              ELSE /\ last_events' = remember(last_events, event)
                   /\ accepted' = Append(accepted, event.seq)
                   /\ PROCESS_CACHE' = CachedCache(PROCESS_CACHE, event.hwnd, clock, os)
                   /\ alerts' = alerts \o labels
                   /\ screenshots' = screenshots \o
                          [i \in 1..Len(labels) |->
                              [name |-> proc_info.process_name, seq |-> event.seq]]
                   /\ offered' = Append(offered,
                          [entry |-> log_entry, sent |-> try_send_ok(queueB, log_receiver)])
                   /\ queueB' = try_send(queueB, log_entry, log_receiver)
           /\ pcWorker' = IF is_duplicate(last_events, event) THEN "loop"
                          ELSE after_try_send(try_send_ok(queueB, log_receiver))
    /\ UNCHANGED <<alertVars, callVars, os, log_dir, clock, controlVars, sinkVars, LAST_MOUSE_CLICK_MS, event_senders,
                   log_senders, captured>>

\* event_worker: recv_timeout gave Err(Timeout) (continue) or, with no sender
\* left, Err(Disconnected) (break)
WorkerRecvNothing ==
    /\ Alive
    /\ pcWorker = "recv"
    /\ queueA = <<>>
    /\ IF event_senders = 0
       THEN /\ pcWorker' = "done"
            /\ log_senders' = log_senders - 1
       ELSE /\ pcWorker' = "loop"
            /\ UNCHANGED log_senders
    /\ UNCHANGED <<alertVars, callVars, os, log_dir, clock, controlVars, sinkVars, LAST_MOUSE_CLICK_MS, queueA, queueB,
                   event_senders, last_events, PROCESS_CACHE, captured, received,
                   accepted, offered, alerts, screenshots>>

\* --------------------------------------------------------------- the Sink

\* logger.rs: LogEntry::format_file, line by line
format_file(entry) ==
    LET head == << <<"rule">>,
                   <<"stamp", ToString(entry.timestamp), entry.event_type>>,
                   <<"Process", entry.process_name, ToString(entry.process_id)>>,
                   <<"Path", entry.process_path>>,
                   <<"Title", IF entry.window_title = "" THEN "(no title)"
                              ELSE entry.window_title>>,
                   <<"Class", entry.window_class>> >>
        command == IF entry.command_line # None /\ entry.command_line # ""
                   THEN << <<"Command", entry.command_line>> >> ELSE <<>>
        level(label, name, id, path) ==
            << <<label, name, ToString(id)>> >> \o
            (IF path # "" /\ path # "Access denied" THEN << <<"Path", path>> >> ELSE <<>>)
        hierarchy ==
            IF entry.parent_process_id > 0
            THEN << <<"PROCESS HIERARCHY">> >> \o
                 level("Parent", entry.parent_process_name, entry.parent_process_id,
                       entry.parent_process_path) \o
                 (IF entry.grandparent_process_id > 0 /\ entry.grandparent_process_name # ""
                  THEN level("Grandparent", entry.grandparent_process_name,
                             entry.grandparent_process_id, entry.grandparent_process_path)
                  ELSE <<>>) \o
                 (IF entry.greatgrandparent_process_id > 0
                     /\ entry.greatgrandparent_process_name # ""
                  THEN level("Great-Grandparent", entry.greatgrandparent_process_name,
                             entry.greatgrandparent_process_id,
                             entry.greatgrandparent_process_path)
                  ELSE <<>>)
            ELSE <<>>
    IN  head \o command \o hierarchy

\* PathBuf::new(): log_worker has no session file
NoPath == [prefix |-> "", stamp |-> 0]

\* str::starts_with, on a file name
starts_with(name, prefix) == name.prefix = prefix

\* logger.rs: cleanup_old_logs: the directory afterwards.  Of the files whose
\* name starts with prefix the keep_count most recently modified stay.
cleanup_old_logs(dir, keep_count, prefix) ==
    LET log_files == SelectSeq(dir, LAMBDA f : starts_with(f, prefix))
        kept == IF Len(log_files) > keep_count
                THEN SubSeq(log_files, Len(log_files) - keep_count + 1, Len(log_files))
                ELSE log_files
    IN  SelectSeq(dir, LAMBDA f : ~starts_with(f, prefix) \/ f \in Range(kept))

\* a write reaches the file name: it is now the most recently modified one
touch(dir, name) == SelectSeq(dir, LAMBDA f : f # name) \o <<name>>

\* log_worker: "event_%Y-%m-%d_%H-%M-%S.log" of Local::now(): one name per second
session_file(now) == [prefix |-> "event_", stamp |-> now \div 1000]

\* logger.rs: log_worker up to the receive loop.  io is what the file system
\* answers: "ok", "no_dir" (create_dir_all failed) or "no_file" (open failed).
\* The file is opened in append mode: a file of the same name stays.
SinkStart(io) ==
    /\ Alive
    /\ pcSink = "start"
    /\ IF io = "ok"
       THEN /\ log_dir' = touch(cleanup_old_logs(log_dir, 2, "event_"), session_file(clock))
            /\ log_file_path' = session_file(clock)
            /\ file' = <<[kind |-> "header"]>>
            /\ unflushed' = 0
            /\ gui' = Append(gui, [call |-> "set_log_file_path"])
            /\ pcSink' = "recv"
            /\ UNCHANGED log_receiver
       ELSE /\ log_dir' = IF io = "no_file" THEN cleanup_old_logs(log_dir, 2, "event_")
                          ELSE log_dir
            /\ pcSink' = "done"
            /\ log_receiver' = FALSE
            /\ UNCHANGED <<file, unflushed, gui, log_file_path>>
    /\ UNCHANGED <<alertVars, callVars, os, clock, controlVars, workerVars, LAST_MOUSE_CLICK_MS, queueA, queueB,
                   event_senders, entry_count, captured>>

\* alert_window.rs: add_log_entry as log_worker calls it: the call as the
\* presentation layer sees it
add_log_entry(entry) ==
    [call |-> "add_log_entry", seq |-> entry.seq, event_type |-> entry.event_type,
     details |-> format_file(entry), process_path |-> entry.process_path]

\* a faulty flush_due: the writer is flushed after the tenth entry only
flush_due_once(count) == count = flush_interval

\* logger.rs: log_worker, if entry_count % flush_interval == 0
flush_due(count) == count % flush_interval = 0

\* a faulty SinkWriteEntry: the entry is taken and counted but not written
SinkWriteEntry_unwritten ==
    /\ Alive
    /\ pcSink = "recv"
    /\ queueB # <<>>
    /\ queueB' = Tail(queueB)
    /\ gui' = Append(gui, add_log_entry(Head(queueB)))
    /\ entry_count' = entry_count + 1
    /\ unflushed' = IF flush_due(entry_count + 1) THEN 0 ELSE unflushed + 1
    /\ log_dir' = IF flush_due(entry_count + 1) THEN touch(log_dir, log_file_path)
                   ELSE log_dir
    /\ UNCHANGED <<alertVars, callVars, os, log_file_path, clock, controlVars, workerVars, LAST_MOUSE_CLICK_MS, queueA,
                   event_senders, pcSink, log_receiver, captured, file>>

\* a faulty SinkWriteEntry: the entry is announced twice
SinkWriteEntry_announced_twice ==
    /\ Alive
    /\ pcSink = "recv"
    /\ queueB # <<>>
    /\ LET entry == recv(queueB)[1]
       IN  /\ queueB' = recv(queueB)[2]
           /\ file' = Append(file, [kind |-> "record", text |-> format_file(entry),
                                    timestamp |-> entry.timestamp, seq |-> entry.seq])
           /\ gui' = gui \o <<add_log_entry(entry), add_log_entry(entry)>>
           /\ entry_count' = entry_count + 1
           /\ unflushed' = IF flush_due(entry_count + 1) THEN 0 ELSE unflushed + 1
    /\ log_dir' = IF flush_due(entry_count + 1) THEN touch(log_dir, log_file_path)
                   ELSE log_dir
    /\ UNCHANGED <<alertVars, callVars, os, log_file_path, clock, controlVars, workerVars, LAST_MOUSE_CLICK_MS, queueA,
                   event_senders, pcSink, log_receiver, captured>>

\* logger.rs: log_worker, one turn of while let Ok(entry) = receiver.recv()
SinkWriteEntry ==
    /\ Alive
    /\ pcSink = "recv"
    /\ queueB # <<>>
    /\ LET entry == recv(queueB)[1]
       IN  /\ queueB' = recv(queueB)[2]
           /\ file' = Append(file, [kind |-> "record", text |-> format_file(entry),
                                    timestamp |-> entry.timestamp, seq |-> entry.seq])
           /\ gui' = Append(gui, add_log_entry(entry))
           /\ entry_count' = entry_count + 1
           /\ unflushed' = IF flush_due(entry_count + 1) THEN 0 ELSE unflushed + 1
    /\ log_dir' = IF flush_due(entry_count + 1) THEN touch(log_dir, log_file_path)
                   ELSE log_dir
    /\ UNCHANGED <<alertVars, callVars, os, log_file_path, clock, controlVars, workerVars, LAST_MOUSE_CLICK_MS, queueA,
                   event_senders, pcSink, log_receiver, captured>>

\* a faulty SinkEndOfStream: recv() gives Err as soon as the channel is empty
SinkEndOfStream_on_empty ==
    /\ Alive
    /\ pcSink = "recv"
    /\ queueB = <<>>
    /\ file' = Append(file, [kind |-> "footer", total |-> entry_count])
    /\ unflushed' = 0
    /\ pcSink' = "done"
    /\ UNCHANGED gui
    /\ log_receiver' = FALSE
    /\ log_dir' = touch(log_dir, log_file_path)
    /\ UNCHANGED <<alertVars, callVars, os, log_file_path, clock, controlVars, workerVars, LAST_MOUSE_CLICK_MS, queueA, queueB,
                   event_senders, entry_count, captured>>

\* logger.rs: log_worker, recv() gave Err: every sender is gone and the channel
\* is empty; the footer, the final flush, return
SinkEndOfStream ==
    /\ Alive
    /\ pcSink = "recv"
    /\ queueB = <<>>
    /\ log_senders = 0
    /\ file' = Append(file, [kind |-> "footer", total |-> entry_count])
    /\ unflushed' = 0
    /\ pcSink' = "done"
    /\ UNCHANGED gui
    /\ log_receiver' = FALSE
    /\ log_dir' = touch(log_dir, log_file_path)
    /\ UNCHANGED <<alertVars, callVars, os, log_file_path, clock, controlVars, workerVars, LAST_MOUSE_CLICK_MS, queueA, queueB,
                   event_senders, entry_count, captured>>

\* ----------------------------------------------------- the main thread

\* a faulty set_hooks_fails: the pointer hook counts as a hook that was set
set_hooks_fails_none_of_seven(won, mouse_ok) == won = {} /\ ~mouse_ok

\* event_hook.rs: set_hooks.  won: the SetWinEventHook calls that succeeded;
\* mouse_ok: SetWindowsHookExW succeeded.  Err exactly when hooks.is_empty().
set_hooks_fails(won, mouse_ok) == won = {}

\* event_hook.rs: run_with_tray_check, let hooks = set_hooks()?
MainSetHooks(won, mouse_ok) ==
    /\ pcMain = "set_hooks"
    /\ hooks' = won
    /\ MOUSE_HOOK_PTR' = IF mouse_ok THEN 1 ELSE 0
    /\ registered' = won \cup (IF mouse_ok THEN {"MOUSE"} ELSE {})
    /\ pcMain' = IF set_hooks_fails(won, mouse_ok) THEN "failed"
                 ELSE "log_current_foreground"
    /\ UNCHANGED <<alertVars, unhooked, callVars, os, log_dir, clock, pcTray, pcCtrlC, SHOULD_EXIT, SHUTDOWN, MESSAGE_THREAD_ID,
                   thread_msgs, workerVars, sinkVars, LAST_MOUSE_CLICK_MS, queueA,
                   queueB, event_senders, captured>>

\* event_hook.rs: log_current_foreground; hwnd is what GetForegroundWindow gives
log_current_foreground(hwnd) ==
    /\ pcMain = "log_current_foreground"
    /\ IF hwnd # 0
       THEN LET event == WindowEvent("Foreground", hwnd)
            IN  /\ captured' = Append(captured, event)
                /\ queueA' = try_send(queueA, event, pcWorker # "done")
       ELSE UNCHANGED <<captured, queueA>>
    /\ pcMain' = "set_handler"
    /\ UNCHANGED <<alertVars, callVars, os, log_dir, clock, pcTray, pcCtrlC, SHOULD_EXIT, SHUTDOWN, MESSAGE_THREAD_ID,
                   thread_msgs, hooks, MOUSE_HOOK_PTR, registered, unhooked, workerVars, sinkVars,
                   LAST_MOUSE_CLICK_MS, queueB, event_senders>>

\* event_hook.rs: run_with_tray_check, ctrlc::set_handler (it may fail)
MainSetCtrlCHandler(ok) ==
    /\ pcMain = "set_handler"
    /\ pcCtrlC' = IF ok THEN "armed" ELSE "unset"
    /\ pcMain' = "spawn_tray_checker"
    /\ UNCHANGED <<alertVars, callVars, os, log_dir, clock, pcTray, SHOULD_EXIT, SHUTDOWN, MESSAGE_THREAD_ID, thread_msgs,
                   hooks, MOUSE_HOOK_PTR, registered, unhooked, workerVars, sinkVars,
                   LAST_MOUSE_CLICK_MS, queueA, queueB, event_senders, captured>>

\* event_hook.rs: run_with_tray_check, the tray exit checker thread is spawned
MainSpawnTrayChecker ==
    /\ pcMain = "spawn_tray_checker"
    /\ pcTray' = "sleep"
    /\ pcMain' = "message_loop"
    /\ UNCHANGED <<alertVars, callVars, os, log_dir, clock, pcCtrlC, SHOULD_EXIT, SHUTDOWN, MESSAGE_THREAD_ID, thread_msgs,
                   hooks, MOUSE_HOOK_PTR, registered, unhooked, workerVars, sinkVars,
                   LAST_MOUSE_CLICK_MS, queueA, queueB, event_senders, captured>>

\* event_hook.rs: message_loop, MESSAGE_THREAD_ID.set(GetCurrentThreadId())
MessageLoopEnter ==
    /\ pcMain = "message_loop"
    /\ MESSAGE_THREAD_ID' = MainThreadId
    /\ pcMain' = "GetMessage"
    /\ UNCHANGED <<alertVars, callVars, os, log_dir, clock, pcTray, pcCtrlC, SHOULD_EXIT, SHUTDOWN, thread_msgs, hooks,
                   MOUSE_HOOK_PTR, registered, unhooked, workerVars, sinkVars, LAST_MOUSE_CLICK_MS,
                   queueA, queueB, event_senders, captured>>

\* event_hook.rs: message_loop, GetMessageW returns the oldest posted message:
\* WM_QUIT ends the loop; any other message is dispatched unless SHUTDOWN is set
MessageLoopGetMessage ==
    /\ pcMain = "GetMessage"
    /\ thread_msgs # <<>>
    /\ thread_msgs' = Tail(thread_msgs)
    /\ pcMain' = IF Head(thread_msgs) = "WM_QUIT" \/ SHUTDOWN THEN "cleanup"
                 ELSE "GetMessage"
    /\ UNCHANGED <<alertVars, callVars, os, log_dir, clock, pcTray, pcCtrlC, SHOULD_EXIT, SHUTDOWN, MESSAGE_THREAD_ID,
                   hooks, MOUSE_HOOK_PTR, registered, unhooked, workerVars, sinkVars,
                   LAST_MOUSE_CLICK_MS, queueA, queueB, event_senders, captured>>

\* PostThreadMessageW(thread_id, msg): appended to the thread's message queue
PostThreadMessageW(msgs, msg) == Append(msgs, msg)

\* some other program posts a message to the message-loop thread
OtherThreadMessage(limit) ==
    /\ Alive
    /\ MESSAGE_THREAD_ID # 0
    /\ Len(thread_msgs) < limit
    /\ thread_msgs' = PostThreadMessageW(thread_msgs, "WM_NULL")
    /\ UNCHANGED <<alertVars, callVars, os, log_dir, clock, pcMain, pcTray, pcCtrlC, SHOULD_EXIT, SHUTDOWN,
                   MESSAGE_THREAD_ID, hooks, MOUSE_HOOK_PTR, registered, unhooked, workerVars,
                   sinkVars, LAST_MOUSE_CLICK_MS, queueA, queueB, event_senders, captured>>

\* a faulty MainStoreShutdown: the flag is cleared after the loop
MainStoreShutdown_clears ==
    /\ pcMain = "cleanup"
    /\ SHUTDOWN' = FALSE
    /\ pcMain' = "unhook_all"
    /\ UNCHANGED <<alertVars, callVars, os, log_dir, clock, pcTray, pcCtrlC, SHOULD_EXIT, MESSAGE_THREAD_ID, thread_msgs,
                   hooks, MOUSE_HOOK_PTR, registered, unhooked, workerVars, sinkVars,
                   LAST_MOUSE_CLICK_MS, queueA, queueB, event_senders, captured>>

\* event_hook.rs: run_with_tray_check, SHUTDOWN.store(true) after the loop
MainStoreShutdown ==
    /\ pcMain = "cleanup"
    /\ SHUTDOWN' = TRUE
    /\ pcMain' = "unhook_all"
    /\ UNCHANGED <<alertVars, callVars, os, log_dir, clock, pcTray, pcCtrlC, SHOULD_EXIT, MESSAGE_THREAD_ID, thread_msgs,
                   hooks, MOUSE_HOOK_PTR, registered, unhooked, workerVars, sinkVars,
                   LAST_MOUSE_CLICK_MS, queueA, queueB, event_senders, captured>>

\* a faulty unhook_all: the pointer hook is left in place
unhook_all_but_mouse(hs, mouse_ptr) == hs

\* event_hook.rs: unhook_all, the handles given to UnhookWinEvent and
\* UnhookWindowsHookEx
unhook_all(hs, mouse_ptr) == hs \cup (IF mouse_ptr # 0 THEN {"MOUSE"} ELSE {})

\* a faulty MainUnhookAll: no producer handle of queue A outlives drop(event_tx)
MainUnhookAll_drops_every_sender ==
    /\ pcMain = "unhook_all"
    /\ registered' = registered \ unhook_all(hooks, MOUSE_HOOK_PTR)
    /\ unhooked' = [h \in DOMAIN unhooked |->
                       IF h \in unhook_all(hooks, MOUSE_HOOK_PTR)
                       THEN unhooked[h] + 1 ELSE unhooked[h]]
    /\ hooks' = {}
    /\ event_senders' = 0
    /\ pcMain' = "join_worker"
    /\ UNCHANGED <<alertVars, callVars, os, log_dir, clock, pcTray, pcCtrlC, SHOULD_EXIT, SHUTDOWN, MESSAGE_THREAD_ID,
                   thread_msgs, MOUSE_HOOK_PTR, workerVars, sinkVars,
                   LAST_MOUSE_CLICK_MS, queueA, queueB, captured>>

\* event_hook.rs: unhook_all(hooks), then drop(event_tx)
MainUnhookAll ==
    /\ pcMain = "unhook_all"
    /\ registered' = registered \ unhook_all(hooks, MOUSE_HOOK_PTR)
    /\ unhooked' = [h \in DOMAIN unhooked |->
                       IF h \in unhook_all(hooks, MOUSE_HOOK_PTR)
                       THEN unhooked[h] + 1 ELSE unhooked[h]]
    /\ hooks' = {}
    /\ event_senders' = event_senders - 1
    /\ pcMain' = "join_worker"
    /\ UNCHANGED <<alertVars, callVars, os, log_dir, clock, pcTray, pcCtrlC, SHOULD_EXIT, SHUTDOWN, MESSAGE_THREAD_ID,
                   thread_msgs, MOUSE_HOOK_PTR, workerVars, sinkVars,
                   LAST_MOUSE_CLICK_MS, queueA, queueB, captured>>

\* event_hook.rs: run_with_tray_check, worker_handle.join()
MainJoinWorker ==
    /\ pcMain = "join_worker"
    /\ pcWorker = "done"
    /\ pcMain' = "join_logger"
    /\ UNCHANGED <<alertVars, callVars, os, log_dir, clock, pcTray, pcCtrlC, SHOULD_EXIT, SHUTDOWN, MESSAGE_THREAD_ID,
                   thread_msgs, hooks, MOUSE_HOOK_PTR, registered, unhooked, workerVars, sinkVars,
                   LAST_MOUSE_CLICK_MS, queueA, queueB, event_senders, captured>>

\* event_hook.rs: run_with_tray_check, logger_handle.join(), Ok(())
MainJoinLogger ==
    /\ pcMain = "join_logger"
    /\ pcSink = "done"
    /\ pcMain' = "done"
    /\ UNCHANGED <<alertVars, callVars, os, log_dir, clock, pcTray, pcCtrlC, SHOULD_EXIT, SHUTDOWN, MESSAGE_THREAD_ID,
                   thread_msgs, hooks, MOUSE_HOOK_PTR, registered, unhooked, workerVars, sinkVars,
                   LAST_MOUSE_CLICK_MS, queueA, queueB, event_senders, captured>>

\* ------------------------------------------------------ shutdown requests

\* tray.rs: the user picks Exit in the tray menu (or request_exit is called)
TrayExitRequest ==
    /\ Alive
    /\ ~SHOULD_EXIT
    /\ SHOULD_EXIT' = TRUE
    /\ UNCHANGED <<alertVars, callVars, os, log_dir, clock, pcMain, pcTray, pcCtrlC, SHUTDOWN, MESSAGE_THREAD_ID,
                   thread_msgs, hooks, MOUSE_HOOK_PTR, registered, unhooked, workerVars, sinkVars,
                   LAST_MOUSE_CLICK_MS, queueA, queueB, event_senders, captured>>

\* event_hook.rs: the tray exit checker, after its sleep: the test and the store
TrayCheckerPoll ==
    /\ Alive
    /\ pcTray = "sleep"
    /\ IF SHOULD_EXIT \/ SHUTDOWN
       THEN SHUTDOWN' = TRUE /\ pcTray' = "post"
       ELSE UNCHANGED <<SHUTDOWN, pcTray>>
    /\ UNCHANGED <<alertVars, callVars, os, log_dir, clock, pcMain, pcCtrlC, SHOULD_EXIT, MESSAGE_THREAD_ID, thread_msgs,
                   hooks, MOUSE_HOOK_PTR, registered, unhooked, workerVars, sinkVars,
                   LAST_MOUSE_CLICK_MS, queueA, queueB, event_senders, captured>>

\* event_hook.rs: the tray exit checker, if let Some(id) = MESSAGE_THREAD_ID.get()
\* { PostThreadMessageW(id, WM_QUIT) }; break
TrayCheckerPost ==
    /\ Alive
    /\ pcTray = "post"
    /\ thread_msgs' = IF MESSAGE_THREAD_ID # 0
                      THEN PostThreadMessageW(thread_msgs, "WM_QUIT") ELSE thread_msgs
    /\ pcTray' = "done"
    /\ UNCHANGED <<alertVars, callVars, os, log_dir, clock, pcMain, pcCtrlC, SHOULD_EXIT, SHUTDOWN, MESSAGE_THREAD_ID,
                   hooks, MOUSE_HOOK_PTR, registered, unhooked, workerVars, sinkVars,
                   LAST_MOUSE_CLICK_MS, queueA, queueB, event_senders, captured>>

\* event_hook.rs: the CTRL+C handler runs: SHUTDOWN.store(true)
CtrlCHandlerStore ==
    /\ Alive
    /\ pcCtrlC = "armed"
    /\ SHUTDOWN' = TRUE
    /\ pcCtrlC' = "post"
    /\ UNCHANGED <<alertVars, callVars, os, log_dir, clock, pcMain, pcTray, SHOULD_EXIT, MESSAGE_THREAD_ID, thread_msgs,
                   hooks, MOUSE_HOOK_PTR, registered, unhooked, workerVars, sinkVars,
                   LAST_MOUSE_CLICK_MS, queueA, queueB, event_senders, captured>>

\* event_hook.rs: the CTRL+C handler, the WM_QUIT post
CtrlCHandlerPost ==
    /\ Alive
    /\ pcCtrlC = "post"
    /\ thread_msgs' = IF MESSAGE_THREAD_ID # 0
                      THEN PostThreadMessageW(thread_msgs, "WM_QUIT") ELSE thread_msgs
    /\ pcCtrlC' = "done"
    /\ UNCHANGED <<alertVars, callVars, os, log_dir, clock, pcMain, pcTray, SHOULD_EXIT, SHUTDOWN, MESSAGE_THREAD_ID,
                   hooks, MOUSE_HOOK_PTR, registered, unhooked, workerVars, sinkVars,
                   LAST_MOUSE_CLICK_MS, queueA, queueB, event_senders, captured>>

\* ------------------------------------------------------------ the start

\* alert_window.rs: the header text before the first event, lazy_static
\* ALERT_MESSAGE
WaitingText == <<"PC Watcher - Waiting...">>

\* alert_window.rs, set_alert: format!("!! {} !!", process_name)
AlertText(process_name) == <<"!! ", process_name, " !!">>

\* alert_window.rs, add_log_entry and clear_alert:
\* format!("PC Watcher - {} Events", count)
CounterText(count) == <<"PC Watcher - ", ToString(count), " Events">>

\* run_with_tray_check has made the channels, set EVENT_SENDER and spawned the
\* Sink and the Worker; set_hooks comes next.
ProcessStart ==
    /\ pcMain = "set_hooks"
    /\ pcWorker = "loop"
    /\ pcSink = "start"
    /\ pcTray = "unspawned"
    /\ pcCtrlC = "unset"
    /\ SHOULD_EXIT = FALSE
    /\ SHUTDOWN = FALSE
    /\ MESSAGE_THREAD_ID = 0
    /\ thread_msgs = <<>>
    /\ hooks = {}
    /\ MOUSE_HOOK_PTR = 0
    /\ registered = {}
    /\ unhooked = [h \in WinEventHooks \cup {"MOUSE"} |-> 0]
    /\ LAST_MOUSE_CLICK_MS = 0
    /\ queueA = <<>>
    /\ queueB = <<>>
    /\ event_senders = 2
    /\ log_senders = 1
    /\ log_receiver = TRUE
    /\ last_events = <<>>
    /\ PROCESS_CACHE = <<>>
    /\ file = <<>>
    /\ entry_count = 0
    /\ unflushed = 0
    /\ gui = <<>>
    /\ captured = <<>>
    /\ received = <<>>
    /\ accepted = <<>>
    /\ offered = <<>>
    /\ alerts = <<>>
    /\ screenshots = <<>>
    /\ log_file_path = NoPath
    /\ arg = <<>>
    /\ ret = <<>>
    /\ ALERT_ACTIVE = FALSE
    /\ ALERT_MESSAGE = WaitingText
    /\ EVENT_COUNT = 0
    /\ pcSetAlert = <<>>
    /\ pcAddLog = <<>>
    /\ clear_threads = <<>>
    /\ alert_calls = <<>>

\* the program is started for the first time, in tray mode: the log directory
\* holds the application log of init_file_logger
Init ==
    /\ clock = Clock0
    /\ log_dir = <<[prefix |-> "app.log", stamp |-> 0]>>
    /\ os = 1
    /\ ProcessStart

\* the process is ended, at any moment, and the program is started again:
\* the clock and the log directory are what they were
Restart ==
    /\ pcMain' = "set_hooks"
    /\ pcWorker' = "loop"
    /\ pcSink' = "start"
    /\ pcTray' = "unspawned"
    /\ pcCtrlC' = "unset"
    /\ SHOULD_EXIT' = FALSE
    /\ SHUTDOWN' = FALSE
    /\ MESSAGE_THREAD_ID' = 0
    /\ thread_msgs' = <<>>
    /\ hooks' = {}
    /\ MOUSE_HOOK_PTR' = 0
    /\ registered' = {}
    /\ unhooked' = [h \in WinEventHooks \cup {"MOUSE"} |-> 0]
    /\ LAST_MOUSE_CLICK_MS' = 0
    /\ queueA' = <<>>
    /\ queueB' = <<>>
    /\ event_senders' = 2
    /\ log_senders' = 1
    /\ log_receiver' = TRUE
    /\ last_events' = <<>>
    /\ PROCESS_CACHE' = <<>>
    /\ file' = <<>>
    /\ entry_count' = 0
    /\ unflushed' = 0
    /\ gui' = <<>>
    /\ captured' = <<>>
    /\ received' = <<>>
    /\ accepted' = <<>>
    /\ offered' = <<>>
    /\ alerts' = <<>>
    /\ screenshots' = <<>>
    /\ log_file_path' = NoPath
    /\ arg' = <<>>
    /\ ret' = <<>>
    /\ ALERT_ACTIVE' = FALSE
    /\ ALERT_MESSAGE' = WaitingText
    /\ EVENT_COUNT' = 0
    /\ pcSetAlert' = <<>>
    /\ pcAddLog' = <<>>
    /\ clear_threads' = <<>>
    /\ alert_calls' = <<>>
    /\ UNCHANGED <<clock, log_dir, os>>

\* ------------------------------------------------------ the environment

\* the OS calls win_event_proc for one of the <<event, hwnd>> pairs of inputs,
\* with some object id and window state
Capture(inputs, limit) ==
    /\ Len(captured) < limit
    /\ \E inp \in inputs, id_object \in {0, -4}, visible \in BOOLEAN, iconic \in BOOLEAN :
           win_event_proc(inp[1], inp[2], id_object, visible, iconic)

\* the OS calls mouse_hook_proc with some pointer message
Pointer ==
    \E code \in {-1, 0}, msg \in {WM_MOUSEMOVE, WM_LBUTTONDOWN, WM_LBUTTONUP,
                                  WM_RBUTTONDOWN, WM_MBUTTONDOWN} :
        mouse_hook_proc(code, msg)

\* run_with_tray_check from set_hooks to the message loop
Startup(outcomes, mouse_oks, hwnds, handler_oks) ==
    \/ \E won \in outcomes, mouse_ok \in mouse_oks : MainSetHooks(won, mouse_ok)
    \/ \E hwnd \in hwnds : log_current_foreground(hwnd)
    \/ \E ok \in handler_oks : MainSetCtrlCHandler(ok)
    \/ MainSpawnTrayChecker
    \/ MessageLoopEnter

Worker == WorkerCheckShutdown \/ WorkerProcessEvent \/ WorkerRecvNothing

Sink(ios) == (\E io \in ios : SinkStart(io)) \/ SinkWriteEntry \/ SinkEndOfStream

\* ------------------------------------------- Spec: the pipeline at work
\* Start-up with every subscription granted, then window events flowing from
\* the callbacks through the Worker to the Sink while time passes.  No shutdown
\* is requested.

\* window 2 is notepad's, window 3 the desktop (explorer, class Progman)
SpecInputs ==
    {<<EVENT_SYSTEM_FOREGROUND, 2>>, <<EVENT_SYSTEM_FOREGROUND, 3>>,
     <<EVENT_OBJECT_SHOW, 2>>}

SpecTicks == {50}

Next ==
    \/ Startup({WinEventHooks}, {TRUE}, {0, 3}, {TRUE})
    \/ Capture(SpecInputs, MaxEvents)
    \/ \E d \in SpecTicks : Tick(d, Clock0 + MaxClockSpan)
    \/ WorkerCheckShutdown
    \/ WorkerProcessEvent
    \/ WorkerRecvNothing
    \/ \E io \in {"ok", "no_file"} : SinkStart(io)
    \/ SinkWriteEntry

Spec == Init /\ [][Next]_vars

\* FairSpec: Spec with the Worker and the Sink threads scheduled: a thread that
\* can take a step eventually takes one.
FairSpec ==
    /\ Spec
    /\ WF_vars(WorkerCheckShutdown)
    /\ WF_vars(WorkerProcessEvent)
    /\ WF_vars(WorkerRecvNothing)
    /\ WF_vars(\E io \in {"ok", "no_file"} : SinkStart(io))
    /\ WF_vars(SinkWriteEntry)

\* ------------------------------------------ SpecHooks: the registration
\* Start-up with every outcome of the seven registrations, then the message
\* loop delivering window events of the ranges that were hooked and pointer
\* messages if the pointer hook was installed.

HookOutcomes == SUBSET WinEventHooks

NextHooks ==
    \/ Startup(HookOutcomes, BOOLEAN, {0, 3}, BOOLEAN)
    \/ Capture(SpecInputs, 2)
    \/ Pointer

SpecHooks == Init /\ [][NextHooks]_vars

\* ------------------------------------------ SpecClick: the click recency
\* The message loop delivers pointer messages and Foreground events of
\* notepad's window (not allow-listed, not name-suspicious) while time passes in
\* steps of 100 ms; the Worker takes the events whenever it is scheduled.

ClickInputs == {<<EVENT_SYSTEM_FOREGROUND, 2>>}

ClickTicks == {100}

NextClick ==
    \/ Startup({WinEventHooks}, {TRUE}, {0}, {TRUE})
    \/ Capture(ClickInputs, MaxClickEvents)
    \/ Pointer
    \/ \E d \in ClickTicks : Tick(d, Clock0 + MaxClickSpan)
    \/ Worker

SpecClick == Init /\ [][NextClick]_vars

\* ------------------------------------------ SpecShutdown: the shutdown
\* The whole life of run_with_tray_check: start-up, the message loop, a tray
\* exit request or CTRL+C at any moment, the clean-up and the joins, with the
\* Worker and the Sink running beside it.

\* the steps of the thread that runs run_with_tray_check
MainThread ==
    \/ Startup({WinEventHooks}, {TRUE}, {0, 3}, BOOLEAN)
    \/ MessageLoopGetMessage
    \/ MainStoreShutdown
    \/ MainUnhookAll
    \/ MainJoinWorker
    \/ MainJoinLogger

NextShutdown ==
    \/ MainThread
    \/ Capture(ClickInputs, 1)
    \/ OtherThreadMessage(1)
    \/ Worker
    \/ Sink({"ok"})
    \/ TrayExitRequest
    \/ TrayCheckerPoll
    \/ TrayCheckerPost
    \/ CtrlCHandlerStore
    \/ CtrlCHandlerPost

SpecShutdown == Init /\ [][NextShutdown]_vars

\* FairShutdown: every thread of the program that can take a step eventually
\* takes one.  Nothing is assumed of the user (the exit request, CTRL+C) or of
\* the rest of the system (window events, messages of other programs).
FairShutdown ==
    /\ SpecShutdown
    /\ WF_vars(MainThread)
    /\ WF_vars(Worker)
    /\ WF_vars(Sink({"ok"}))
    /\ WF_vars(TrayCheckerPoll)
    /\ WF_vars(TrayCheckerPost)
    /\ WF_vars(CtrlCHandlerPost)

\* ------------------------------------------ SpecBurst: a burst of events
\* The message loop delivers, within 50 ms, a Foreground event of notepad's
\* window, ten focus, z-order and minimize events of other windows and kinds,
\* and the Foreground event of notepad's window again.

BurstScript ==
    <<<<EVENT_SYSTEM_FOREGROUND, 2>>,
      <<EVENT_OBJECT_FOCUS, 1>>, <<EVENT_OBJECT_FOCUS, 2>>, <<EVENT_OBJECT_FOCUS, 3>>,
      <<EVENT_OBJECT_FOCUS, 4>>, <<EVENT_OBJECT_REORDER, 1>>, <<EVENT_OBJECT_REORDER, 2>>,
      <<EVENT_OBJECT_REORDER, 3>>, <<EVENT_OBJECT_REORDER, 4>>,
      <<EVENT_SYSTEM_MINIMIZESTART, 1>>, <<EVENT_SYSTEM_MINIMIZEEND, 1>>,
      <<EVENT_SYSTEM_FOREGROUND, 2>>>>

\* the OS delivers the next event of the burst
BurstCapture ==
    /\ Len(captured) < Len(BurstScript)
    /\ Capture({BurstScript[Len(captured) + 1]}, Len(BurstScript))

NextBurst ==
    \/ Startup({WinEventHooks}, {TRUE}, {0}, {TRUE})
    \/ BurstCapture
    \/ \E d \in SpecTicks : Tick(d, Clock0 + MaxBurstSpan)
    \/ Worker

SpecBurst == Init /\ [][NextBurst]_vars

\* ------------------------------------------ SpecFlood: full queues
\* Window events arrive faster than the Worker takes them, and the Sink has
\* not yet opened its file: queue A fills to its capacity, then queue B does.

\* eleven events of different windows and kinds, delivered over and over
FloodCycle == SubSeq(BurstScript, 1, 11)

\* the OS delivers the next event
FloodCapture ==
    /\ Len(captured) < MaxFlood
    /\ Capture({FloodCycle[(Len(captured) % Len(FloodCycle)) + 1]}, MaxFlood)

\* the Worker gets the processor only when queue A is full or the flood is over
LaggingWorker ==
    /\ Len(queueA) = CHANNEL_CAPACITY \/ Len(captured) = MaxFlood
    /\ Worker

NextFlood ==
    \/ Startup({WinEventHooks}, {TRUE}, {0}, {TRUE})
    \/ FloodCapture
    \/ LaggingWorker

SpecFlood == Init /\ [][NextFlood]_vars

\* ------------------------------------------ SpecFlush: a long session
\* Window events of different windows and kinds arrive one after the other
\* while the Worker and the Sink run; the user may ask for the exit at any
\* moment.

FlushCapture ==
    /\ Len(captured) < MaxFlushEvents
    /\ Capture({FloodCycle[(Len(captured) % Len(FloodCycle)) + 1]}, MaxFlushEvents)

NextFlush ==
    \/ Startup({WinEventHooks}, {TRUE}, {0}, {TRUE})
    \/ FlushCapture
    \/ Worker
    \/ Sink({"ok"})
    \/ TrayExitRequest
    \/ TrayCheckerPoll
    \/ TrayCheckerPost

SpecFlush == Init /\ [][NextFlush]_vars

\* ------------------------------------------ SpecSinkFails: no log file
\* The Sink cannot create the log directory or cannot open the session file;
\* window events of suspicious and plain processes keep arriving.

SinkFailInputs ==
    {<<EVENT_SYSTEM_FOREGROUND, 1>>, <<EVENT_SYSTEM_FOREGROUND, 2>>,
     <<EVENT_OBJECT_SHOW, 4>>}

NextSinkFails ==
    \/ Startup({WinEventHooks}, {TRUE}, {0}, {TRUE})
    \/ Capture(SinkFailInputs, MaxSinkFailEvents)
    \/ Worker
    \/ \E io \in {"no_dir", "no_file"} : SinkStart(io)

SpecSinkFails == Init /\ [][NextSinkFails]_vars

\* the Worker thread is scheduled
FairSinkFails == SpecSinkFails /\ WF_vars(Worker)

\* ------------------------------------------ SpecRetention: many sessions
\* The program is started again and again while seconds pass; in each
\* session the Sink starts, unless the process is ended before.

RetentionTicks == {1000}

NextRetention ==
    \/ \E io \in {"ok", "no_dir", "no_file"} : SinkStart(io)
    \/ \E d \in RetentionTicks : Tick(d, Clock0 + MaxRetentionSpan)
    \/ Restart

SpecRetention == Init /\ [][NextRetention]_vars

\* ------------------------------------------ SpecResolve: the resolver
\* get_process_info_cached is called for windows of powershell and of
\* notepad's process id while seconds pass; at some moment notepad ends and
\* its process id goes to another program.

\* the OS ends a process and gives its id to a new one
ProcessTableChange ==
    /\ os < Len(ProcTables)
    /\ os' = os + 1
    /\ UNCHANGED <<alertVars, callVars, clock, log_dir, controlVars, workerVars, sinkVars,
                   LAST_MOUSE_CLICK_MS, queueA, queueB, event_senders, captured>>

\* one call of get_process_info_cached; ret keeps the calls made so far:
\* the window, the time, the process table, whether the call stored a cache
\* entry, and the ProcessInfo returned
CallResolve(hwnds, limit) ==
    /\ Len(ret) < limit
    /\ \E hwnd \in hwnds :
           /\ arg' = <<hwnd>>
           /\ ret' = Append(ret,
                  [hwnd |-> hwnd, at |-> clock, os |-> os,
                   stored |-> /\ WinTable[hwnd].pid # 0
                              /\ ~CacheHit(PROCESS_CACHE, WinTable[hwnd].pid, clock),
                   info |-> CachedInfo(PROCESS_CACHE, hwnd, clock, os)])
           /\ PROCESS_CACHE' = CachedCache(PROCESS_CACHE, hwnd, clock, os)
    /\ UNCHANGED <<alertVars, clock, log_dir, os, controlVars, sinkVars, LAST_MOUSE_CLICK_MS,
                   queueA, queueB, event_senders, captured, pcWorker, last_events,
                   received, accepted, offered, alerts, screenshots, log_senders>>

ResolveWindows == {1, 2, 7}

ResolveTicks == {2500}

NextResolve ==
    \/ CallResolve(ResolveWindows, MaxResolveCalls)
    \/ \E d \in ResolveTicks : Tick(d, Clock0 + MaxResolveSpan)
    \/ ProcessTableChange

SpecResolve == Init /\ [][NextResolve]_vars

\* ------------------------------------------ SpecTree: process tree shapes
\* get_process_info_cached is called for windows of processes in every place
\* of the process tree: in a parent cycle, in a deep chain, below the System
\* process, below an ended parent, and with each kind of access.

TreeWindows == 8..17

TreeTicks == {5000}

NextTree ==
    \/ CallResolve(TreeWindows, MaxTreeCalls)
    \/ \E d \in TreeTicks : Tick(d, Clock0 + MaxTreeSpan)

SpecTree == Init /\ [][NextTree]_vars

\* ------------------------------------------ SpecScenarioA: one Created
\* The message loop delivers one Created event of the PowerShell window, whose
\* process was started by explorer, and pointer messages, while time passes;
\* the Worker and the Sink take what there is whenever they are scheduled.

ScenarioAInputs == {<<EVENT_OBJECT_CREATE, 1>>}

ScenarioTicks == {25}

NextScenarioA ==
    \/ Startup({WinEventHooks}, {TRUE}, {0}, {TRUE})
    \/ Capture(ScenarioAInputs, 1)
    \/ Pointer
    \/ \E d \in ScenarioTicks : Tick(d, Clock0 + MaxScenarioSpan)
    \/ Worker
    \/ SinkStart("ok")
    \/ SinkWriteEntry

SpecScenarioA == Init /\ [][NextScenarioA]_vars

\* ------------------------------------------ SpecScenarioB: an event twice
\* The message loop delivers two window events, of any of the kinds and of the
\* PowerShell or the notepad window, 0 to 100 ms apart.

ScenarioBInputs ==
    {<<event, hwnd>> : event \in {EVENT_SYSTEM_FOREGROUND, EVENT_OBJECT_CREATE,
                                  EVENT_OBJECT_SHOW, EVENT_OBJECT_FOCUS,
                                  EVENT_SYSTEM_MINIMIZESTART, EVENT_SYSTEM_MINIMIZEEND,
                                  EVENT_OBJECT_REORDER},
                     hwnd \in {1, 2}}

NextScenarioB ==
    \/ Startup({WinEventHooks}, {TRUE}, {0}, {TRUE})
    \/ Capture(ScenarioBInputs, 2)
    \/ \E d \in ScenarioTicks : Tick(d, Clock0 + MaxScenarioSpan)
    \/ Worker
    \/ SinkStart("ok")
    \/ SinkWriteEntry

SpecScenarioB == Init /\ [][NextScenarioB]_vars

\* ------------------------------------------ SpecFilter: the pre-filter
\* win_event_proc is called with any event code, subscribed or not, any object
\* id and any state of the PowerShell window, while nothing takes from queue
\* A; ret keeps the calls made so far.

\* the seven subscribed codes, EVENT_SYSTEM_MENUSTART and EVENT_OBJECT_DESTROY
FilterCodes ==
    {EVENT_SYSTEM_FOREGROUND, EVENT_OBJECT_CREATE, EVENT_OBJECT_SHOW,
     EVENT_OBJECT_FOCUS, EVENT_SYSTEM_MINIMIZESTART, EVENT_SYSTEM_MINIMIZEEND,
     EVENT_OBJECT_REORDER, 4, 32769}

\* OBJID_WINDOW, OBJID_CLIENT and OBJID_CURSOR
FilterObjects == {0, -4, -9}

CallWinEventProc ==
    /\ Len(ret) < MaxFilterCalls
    /\ \E event \in FilterCodes, hwnd \in {1}, id_object \in FilterObjects,
          visible \in BOOLEAN, iconic \in BOOLEAN :
           /\ arg' = <<event, hwnd, id_object, visible, iconic>>
           /\ ret' = Append(ret, [event |-> event, hwnd |-> hwnd, id_object |-> id_object,
                                   visible |-> visible, iconic |-> iconic])
           /\ IF PassesFilter(event, id_object, visible, iconic)
              THEN LET window_event == WindowEvent(EventTypeOf(event), hwnd)
                   IN  /\ captured' = Append(captured, window_event)
                       /\ queueA' = try_send(queueA, window_event, pcWorker # "done")
              ELSE UNCHANGED <<captured, queueA>>
    /\ UNCHANGED <<alertVars, os, log_dir, clock, controlVars, workerVars, sinkVars,
                   LAST_MOUSE_CLICK_MS, queueB, event_senders>>

NextFilter == CallWinEventProc

SpecFilter == Init /\ [][NextFilter]_vars

\* ------------------------------------------ SpecCancel: shutdown at work
\* The desktop is in the foreground at the start; Foreground events of the
\* desktop and of notepad arrive at the same millisecond while the tray or
\* CTRL+C asks for the shutdown, in every interleaving with the Worker.

CancelInputs == {<<EVENT_SYSTEM_FOREGROUND, 2>>, <<EVENT_SYSTEM_FOREGROUND, 3>>}

CancelMain ==
    \/ Startup({WinEventHooks}, {TRUE}, {3}, {TRUE})
    \/ MessageLoopGetMessage
    \/ MainStoreShutdown
    \/ MainUnhookAll
    \/ MainJoinWorker
    \/ MainJoinLogger

NextCancel ==
    \/ CancelMain
    \/ Capture(CancelInputs, MaxCancelEvents)
    \/ Worker
    \/ Sink({"ok"})
    \/ TrayExitRequest
    \/ TrayCheckerPoll
    \/ TrayCheckerPost
    \/ CtrlCHandlerStore
    \/ CtrlCHandlerPost

SpecCancel == Init /\ [][NextCancel]_vars

\* every thread of the program that can take a step eventually takes one
FairCancel ==
    /\ SpecCancel
    /\ WF_vars(CancelMain)
    /\ WF_vars(Worker)
    /\ WF_vars(Sink({"ok"}))
    /\ WF_vars(TrayCheckerPoll)
    /\ WF_vars(TrayCheckerPost)
    /\ WF_vars(CtrlCHandlerPost)

\* ------------------------------------------ SpecAlertWindow: the header
\* The entry points of alert_window.rs that write the header state, executed
\* statement by statement: set_alert by the Worker, add_log_entry by the Sink,
\* clear_alert by each thread set_alert spawned, while time passes. The
\* pipeline's actions record these calls in alerts and gui; here the calls
\* come in any order and at any time. LOG_ENTRIES, the icon cache and
\* redraw_window (InvalidateRect) are not part of this state.

\* the labels event_worker passes to set_alert: the process name, or
\* format!("{} (no click!)", process_name)
AlertWindowLabels == {"cmd.exe", "notepad.exe (no click!)"}

AlertWindowTicks == {2500}

\* set_alert: ALERT_ACTIVE.store(true)
SetAlertStore(process_name) ==
    /\ pcSetAlert = <<>>
    /\ Cardinality({i \in DOMAIN alert_calls : alert_calls[i].call = "set_alert"}) < MaxSetAlerts
    /\ ALERT_ACTIVE' = TRUE
    /\ pcSetAlert' = [pc |-> "message", process_name |-> process_name]
    /\ alert_calls' = Append(alert_calls, [call |-> "set_alert", process_name |-> process_name,
                                           at |-> clock])
    /\ UNCHANGED <<ALERT_MESSAGE, EVENT_COUNT, pcAddLog, clear_threads, callVars, clock, log_dir, os,
                   controlVars, workerVars, sinkVars, LAST_MOUSE_CLICK_MS, queueA, queueB,
                   event_senders, captured>>

\* set_alert: *ALERT_MESSAGE.lock() = format!("!! {} !!", process_name)
SetAlertMessage ==
    /\ pcSetAlert # <<>>
    /\ pcSetAlert.pc = "message"
    /\ ALERT_MESSAGE' = AlertText(pcSetAlert.process_name)
    /\ pcSetAlert' = [pcSetAlert EXCEPT !.pc = "spawn"]
    /\ UNCHANGED <<ALERT_ACTIVE, EVENT_COUNT, pcAddLog, clear_threads, alert_calls, callVars, clock,
                   log_dir, os, controlVars, workerVars, sinkVars, LAST_MOUSE_CLICK_MS, queueA,
                   queueB, event_senders, captured>>

\* set_alert: thread::spawn(|| { thread::sleep(5 s); clear_alert(); }), and
\* the return
SetAlertSpawn ==
    /\ pcSetAlert # <<>>
    /\ pcSetAlert.pc = "spawn"
    /\ clear_threads' = Append(clear_threads, [pc |-> "sleep", wake |-> clock + ALERT_TIMEOUT_MS,
                                               count |-> 0])
    /\ pcSetAlert' = <<>>
    /\ UNCHANGED <<ALERT_ACTIVE, ALERT_MESSAGE, EVENT_COUNT, pcAddLog, alert_calls, callVars, clock,
                   log_dir, os, controlVars, workerVars, sinkVars, LAST_MOUSE_CLICK_MS, queueA,
                   queueB, event_senders, captured>>

\* a spawned thread, its sleep over: clear_alert, ALERT_ACTIVE.store(false)
ClearAlertStore(t) ==
    /\ clear_threads[t].pc = "sleep"
    /\ clock >= clear_threads[t].wake
    /\ ALERT_ACTIVE' = FALSE
    /\ clear_threads' = [clear_threads EXCEPT ![t].pc = "load"]
    /\ alert_calls' = Append(alert_calls, [call |-> "clear_alert", process_name |-> "",
                                           at |-> clock])
    /\ UNCHANGED <<ALERT_MESSAGE, EVENT_COUNT, pcSetAlert, pcAddLog, callVars, clock, log_dir, os,
                   controlVars, workerVars, sinkVars, LAST_MOUSE_CLICK_MS, queueA, queueB,
                   event_senders, captured>>

\* clear_alert: let count = EVENT_COUNT.load(..)
ClearAlertLoad(t) ==
    /\ clear_threads[t].pc = "load"
    /\ clear_threads' = [clear_threads EXCEPT ![t].pc = "message", ![t].count = EVENT_COUNT]
    /\ alert_calls' = Append(alert_calls, [call |-> "clear_alert", process_name |-> "",
                                           at |-> clock])
    /\ UNCHANGED <<ALERT_ACTIVE, ALERT_MESSAGE, EVENT_COUNT, pcSetAlert, pcAddLog, callVars, clock,
                   log_dir, os, controlVars, workerVars, sinkVars, LAST_MOUSE_CLICK_MS, queueA,
                   queueB, event_senders, captured>>

\* clear_alert: *ALERT_MESSAGE.lock() = format!("PC Watcher - {} Events", count)
ClearAlertMessage(t) ==
    /\ clear_threads[t].pc = "message"
    /\ ALERT_MESSAGE' = CounterText(clear_threads[t].count)
    /\ clear_threads' = [clear_threads EXCEPT ![t].pc = "done"]
    /\ alert_calls' = Append(alert_calls, [call |-> "clear_alert", process_name |-> "",
                                           at |-> clock])
    /\ UNCHANGED <<ALERT_ACTIVE, EVENT_COUNT, pcSetAlert, pcAddLog, callVars, clock, log_dir, os,
                   controlVars, workerVars, sinkVars, LAST_MOUSE_CLICK_MS, queueA, queueB,
                   event_senders, captured>>

\* add_log_entry: let count = EVENT_COUNT.fetch_add(1, ..) + 1
AddLogEntryCount ==
    /\ pcAddLog = <<>>
    /\ EVENT_COUNT < MaxLogCalls
    /\ EVENT_COUNT' = EVENT_COUNT + 1
    /\ pcAddLog' = [pc |-> "load", count |-> EVENT_COUNT + 1]
    /\ UNCHANGED <<ALERT_ACTIVE, ALERT_MESSAGE, pcSetAlert, clear_threads, alert_calls, callVars,
                   clock, log_dir, os, controlVars, workerVars, sinkVars, LAST_MOUSE_CLICK_MS,
                   queueA, queueB, event_senders, captured>>

\* add_log_entry: if !ALERT_ACTIVE.load(..); with an alert active the call
\* goes on to LOG_ENTRIES and returns
AddLogEntryLoad ==
    /\ pcAddLog # <<>>
    /\ pcAddLog.pc = "load"
    /\ pcAddLog' = IF ~ALERT_ACTIVE THEN [pcAddLog EXCEPT !.pc = "message"] ELSE <<>>
    /\ UNCHANGED <<ALERT_ACTIVE, ALERT_MESSAGE, EVENT_COUNT, pcSetAlert, clear_threads, alert_calls,
                   callVars, clock, log_dir, os, controlVars, workerVars, sinkVars,
                   LAST_MOUSE_CLICK_MS, queueA, queueB, event_senders, captured>>

\* add_log_entry: *ALERT_MESSAGE.lock() = format!("PC Watcher - {} Events",
\* count), and the rest of the call
AddLogEntryMessage ==
    /\ pcAddLog # <<>>
    /\ pcAddLog.pc = "message"
    /\ ALERT_MESSAGE' = CounterText(pcAddLog.count)
    /\ pcAddLog' = <<>>
    /\ UNCHANGED <<ALERT_ACTIVE, EVENT_COUNT, pcSetAlert, clear_threads, alert_calls, callVars,
                   clock, log_dir, os, controlVars, workerVars, sinkVars, LAST_MOUSE_CLICK_MS,
                   queueA, queueB, event_senders, captured>>

NextAlertWindow ==
    \/ \E process_name \in AlertWindowLabels : SetAlertStore(process_name)
    \/ SetAlertMessage
    \/ SetAlertSpawn
    \/ \E t \in DOMAIN clear_threads : ClearAlertStore(t)
    \/ \E t \in DOMAIN clear_threads : ClearAlertLoad(t)
    \/ \E t \in DOMAIN clear_threads : ClearAlertMessage(t)
    \/ AddLogEntryCount
    \/ AddLogEntryLoad
    \/ AddLogEntryMessage
    \/ \E d \in AlertWindowTicks : Tick(d, Clock0 + MaxAlertWindowSpan)

SpecAlertWindow == Init /\ [][NextAlertWindow]_vars

\* ------------------------------------------ SpecRelease: the unhooking
\* Start-up with all, one or none of the window-event subscriptions granted,
\* with and without the pointer hook, a Foreground event if that subscription
\* is held, then a shutdown by the tray or CTRL+C.

ReleaseOutcomes == {WinEventHooks, {"FOREGROUND"}, {}}

ReleaseMain ==
    \/ Startup(ReleaseOutcomes, BOOLEAN, {0, 3}, BOOLEAN)
    \/ MessageLoopGetMessage
    \/ MainStoreShutdown
    \/ MainUnhookAll
    \/ MainJoinWorker
    \/ MainJoinLogger

NextRelease ==
    \/ ReleaseMain
    \/ Capture(ClickInputs, 1)
    \/ OtherThreadMessage(1)
    \/ Worker
    \/ Sink({"ok"})
    \/ TrayExitRequest
    \/ TrayCheckerPoll
    \/ TrayCheckerPost
    \/ CtrlCHandlerStore
    \/ CtrlCHandlerPost

SpecRelease == Init /\ [][NextRelease]_vars

\* every thread of the program that can take a step eventually takes one
FairRelease ==
    /\ SpecRelease
    /\ WF_vars(ReleaseMain)
    /\ WF_vars(Worker)
    /\ WF_vars(Sink({"ok"}))
    /\ WF_vars(TrayCheckerPoll)
    /\ WF_vars(TrayCheckerPost)
    /\ WF_vars(CtrlCHandlerPost)

\* ------------------------------------------ SpecHandles: the OS handles
\* get_process_info is called for any window, with any outcome of each
\* snapshot it takes; ret holds the call until its caller has taken the
\* result: the window, the snapshots' outcomes, and the handles opened and
\* closed in order.

HandleWindows == {1, 3, 5} \cup TreeWindows

CallGetProcessInfo ==
    /\ ret = <<>>
    /\ \E hwnd \in HandleWindows, snaps \in [SnapshotSites -> SnapshotOutcomes] :
           /\ arg' = <<hwnd>>
           /\ ret' = <<[hwnd |-> hwnd, os |-> os, snaps |-> snaps,
                        handles |-> get_process_info_handles(hwnd, ProcTables[os], snaps)]>>
    /\ UNCHANGED <<alertVars, clock, log_dir, os, controlVars, workerVars, sinkVars,
                   LAST_MOUSE_CLICK_MS, queueA, queueB, event_senders, captured>>

\* the caller goes on with the ProcessInfo
ReturnGetProcessInfo ==
    /\ ret # <<>>
    /\ arg' = <<>>
    /\ ret' = <<>>
    /\ UNCHANGED <<alertVars, clock, log_dir, os, controlVars, workerVars, sinkVars,
                   LAST_MOUSE_CLICK_MS, queueA, queueB, event_senders, captured>>

NextHandles ==
    \/ CallGetProcessInfo
    \/ ReturnGetProcessInfo
    \/ ProcessTableChange

SpecHandles == Init /\ [][NextHandles]_vars

\* ------------------------------------------ SpecFill: many processes
\* get_process_info_cached is called for one window after the other, each of
\* a process of its own, while seconds may pass.

FillCall ==
    /\ Len(ret) < MaxPids
    /\ CallResolve({101 + Len(ret)}, MaxFillCalls)

FillTicks == {5000}

NextFill ==
    \/ FillCall
    \/ \E d \in FillTicks : Tick(d, Clock0 + MaxFillSpan)

SpecFill == Init /\ [][NextFill]_vars

\* ------------------------------------------ SpecAlerts: the heuristics
\* The message loop delivers window events of every kind, of windows of
\* suspicious, plain and allow-listed processes, and pointer messages, while
\* 500 ms may pass; the Worker takes the events whenever it is scheduled.

AlertInputs ==
    {<<EVENT_SYSTEM_FOREGROUND, 1>>, <<EVENT_SYSTEM_FOREGROUND, 2>>,
     <<EVENT_SYSTEM_FOREGROUND, 3>>, <<EVENT_SYSTEM_FOREGROUND, 6>>,
     <<EVENT_SYSTEM_FOREGROUND, 7>>, <<EVENT_OBJECT_FOCUS, 1>>,
     <<EVENT_OBJECT_SHOW, 4>>, <<EVENT_OBJECT_CREATE, 1>>,
     <<EVENT_OBJECT_REORDER, 1>>, <<EVENT_SYSTEM_MINIMIZESTART, 4>>,
     <<EVENT_SYSTEM_MINIMIZEEND, 4>>}

AlertTicks == {500}

NextAlerts ==
    \/ Startup({WinEventHooks}, {TRUE}, {0}, {TRUE})
    \/ Capture(AlertInputs, MaxAlertEvents)
    \/ Pointer
    \/ \E d \in AlertTicks : Tick(d, Clock0 + MaxAlertSpan)
    \/ Worker

SpecAlerts == Init /\ [][NextAlerts]_vars

\* ------------------------------------------ SpecNoClick: no click recorded
\* SpecAlerts with a start-up in which the pointer hook is granted or refused.

NextNoClick ==
    \/ Startup({WinEventHooks}, BOOLEAN, {0}, {TRUE})
    \/ Capture(AlertInputs, MaxAlertEvents)
    \/ Pointer
    \/ \E d \in AlertTicks : Tick(d, Clock0 + MaxAlertSpan)
    \/ Worker

SpecNoClick == Init /\ [][NextNoClick]_vars

\* --- is_suspicious_process called directly, on names the caller chooses:
\* the process names of the OS tables and of notification.rs, or a name put
\* together from the letters of NameAlphabet

UpperChar(c) ==
    CASE c = "a" -> "A" [] c = "b" -> "B" [] c = "c" -> "C" [] c = "d" -> "D"
      [] c = "e" -> "E" [] c = "f" -> "F" [] c = "g" -> "G" [] c = "h" -> "H"
      [] c = "i" -> "I" [] c = "j" -> "J" [] c = "k" -> "K" [] c = "l" -> "L"
      [] c = "m" -> "M" [] c = "n" -> "N" [] c = "o" -> "O" [] c = "p" -> "P"
      [] c = "q" -> "Q" [] c = "r" -> "R" [] c = "s" -> "S" [] c = "t" -> "T"
      [] c = "u" -> "U" [] c = "v" -> "V" [] c = "w" -> "W" [] c = "x" -> "X"
      [] c = "y" -> "Y" [] c = "z" -> "Z" [] OTHER -> c

\* str::to_uppercase, on the characters
to_uppercase(cs) == [i \in 1..Len(cs) |-> UpperChar(cs[i])]

\* every other letter in upper case, the rest in lower case
AlternatingCase(cs) ==
    [i \in 1..Len(cs) |-> IF i % 2 = 1 THEN UpperChar(cs[i]) ELSE LowerChar(cs[i])]

\* spellings of one name that differ in letter case only
CaseVariants(cs) == {cs, to_lowercase(cs), to_uppercase(cs), AlternatingCase(cs)}

KnownNames ==
    UNION {CaseVariants(Chars(n)) :
             n \in Range(SUSPICIOUS_PROCESSES)
                   \cup {"powershell.exe", "PowerShell", "notepad", "explorer",
                         "Explorer.EXE", "pc_watcher.exe", "Unknown", "System"}}

NameAlphabet == {"c", "m", "d", "C", "M", "D", "x"}

ChooseName(names) ==
    /\ arg = <<>>
    /\ ret = <<>>
    /\ arg' \in names
    /\ UNCHANGED <<ret, programVars>>

TypeChar(alphabet, limit) ==
    /\ ret = <<>>
    /\ Len(arg) < limit
    /\ \E c \in alphabet : arg' = Append(arg, c)
    /\ UNCHANGED <<ret, programVars>>

CallIsSuspicious ==
    /\ ret = <<>>
    /\ ret' = <<is_suspicious_process(arg)>>
    /\ UNCHANGED <<arg, programVars>>

NextNames ==
    \/ ChooseName(KnownNames)
    \/ TypeChar(NameAlphabet, MaxNameLen)
    \/ CallIsSuspicious

SpecNames == Init /\ [][NextNames]_vars

\* ----------------------------------------------------- reading the history

\* the records of the session file, in file order
Records == SelectSeq(file, LAMBDA item : item.kind = "record")

RecordSeqs == [i \in 1..Len(Records) |-> Records[i].seq]

\* the LogEntries that entered queue B, in the order of the Worker's sends
Sent == SelectSeq(offered, LAMBDA o : o.sent)

SentSeqs == [i \in 1..Len(Sent) |-> Sent[i].entry.seq]

OfferedSeqs == [i \in 1..Len(offered) |-> offered[i].entry.seq]

\* event number n reached queue B
Forwarded(n) == n \in Range(SentSeqs)

\* every LogEntry the Worker offered so far entered queue B
AllSent == \A k \in 1..Len(offered) : offered[k].sent

SameTarget(a, b) == a.hwnd = b.hwnd /\ a.event_type = b.event_type

TimeApart(a, b) == Abs(a.timestamp - b.timestamp)

IsPrefix(s, t) == Len(s) <= Len(t) /\ s = SubSeq(t, 1, Len(s))

\* the position of event number n in the order of the Worker's receives
RecvPos(n) == CHOOSE i \in 1..Len(received) : received[i] = n

\* event number n, when the Worker received it, lay within 100 ms of an event
\* of the same window and kind that the Worker had accepted before it
NearEarlierAccepted(n) ==
    \E m \in Range(accepted) :
        /\ RecvPos(m) < RecvPos(n)
        /\ SameTarget(captured[m], captured[n])
        /\ TimeApart(captured[m], captured[n]) < 100

\* ------------------------------------------------------------- the claims

\* C1 as stated: of any two events the Worker took from queue A that have the
\* same window handle and kind and timestamps less than 100 ms apart, at most
\* one is forwarded to queue B, whatever the Worker accepts between them.
C1_AtMostOneForwarded ==
    \A i, j \in 1..Len(received) :
        (/\ i < j
         /\ SameTarget(captured[received[i]], captured[received[j]])
         /\ TimeApart(captured[received[i]], captured[received[j]]) < 100)
        => ~(Forwarded(received[i]) /\ Forwarded(received[j]))

\* C2 as stated: any two events the Worker received with the same window
\* handle and kind and timestamps 100 ms or more apart are both forwarded to
\* queue B, provided queue B was never full.
C2_BothForwarded ==
    \A i, j \in 1..Len(received) :
        (/\ i < j
         /\ SameTarget(captured[received[i]], captured[received[j]])
         /\ TimeApart(captured[received[i]], captured[received[j]]) >= 100
         /\ AllSent)
        => Forwarded(received[i]) /\ Forwarded(received[j])

\* C2 amended: two such events are both forwarded, provided queue B took every
\* LogEntry the Worker offered (never full, the Sink alive) and neither event
\* lies within 100 ms of an earlier accepted event of the same window handle
\* and kind.
C2_PassThrough ==
    \A i, j \in 1..Len(received) :
        (/\ i < j
         /\ SameTarget(captured[received[i]], captured[received[j]])
         /\ TimeApart(captured[received[i]], captured[received[j]]) >= 100
         /\ AllSent
         /\ ~NearEarlierAccepted(received[i])
         /\ ~NearEarlierAccepted(received[j]))
        => Forwarded(received[i]) /\ Forwarded(received[j])

\* C2 witness: two events of one window and kind, 100 ms apart, both in queue B
\* or beyond
C2_Witness ==
    \E i, j \in 1..Len(received) :
        /\ i < j
        /\ SameTarget(captured[received[i]], captured[received[j]])
        /\ TimeApart(captured[received[i]], captured[received[j]]) >= 100
        /\ Forwarded(received[i]) /\ Forwarded(received[j])

\* the Sink could not create the log directory or open the session file and
\* returned: the session has no log file
SinkFailed == pcSink = "done" /\ file = <<>>

\* the file holds no event twice, only events the Worker accepted, each with
\* its capture timestamp, and in non-decreasing timestamp order
C3_FileSound ==
    /\ \A i, j \in 1..Len(Records) :
           i < j => /\ Records[i].seq # Records[j].seq
                    /\ Records[i].timestamp <= Records[j].timestamp
    /\ \A i \in 1..Len(Records) :
           /\ Records[i].seq \in Range(accepted)
           /\ Records[i].timestamp = captured[Records[i].seq].timestamp

AlertsOf(n) == SelectSeq(alerts, LAMBDA a : a.seq = n)

ScreenshotsOf(n) == SelectSeq(screenshots, LAMBDA r : r.seq = n)

\* heuristic 1 applies to event n: a Foreground, Shown or Created event of a
\* process whose name is suspicious
Heuristic1(n) ==
    /\ captured[n].event_type \in {"Foreground", "Shown", "Created"}
    /\ SuspiciousInfo[ProcessInfoOf[os][captured[n].hwnd]]

\* C11: for each accepted event the Worker dispatches at most one alert and at
\* most one screenshot request, the one exactly when the other; where
\* heuristic 1 applies the label is the plain process name, recent click or
\* not; the label ending in " (no click!)" is used only where heuristic 1 does
\* not apply.  Events the Worker dropped get neither.
C11_FirstMatchWins ==
    /\ \A n \in 1..Len(captured) :
           /\ Len(AlertsOf(n)) <= 1
           /\ Len(ScreenshotsOf(n)) = Len(AlertsOf(n))
           /\ n \notin Range(accepted) => AlertsOf(n) = <<>>
           /\ (n \in Range(accepted) /\ Heuristic1(n))
                  => /\ Len(AlertsOf(n)) = 1
                     /\ AlertsOf(n)[1].label =
                            <<ProcessInfoOf[os][captured[n].hwnd].process_name>>
           /\ \A i \in 1..Len(AlertsOf(n)) :
                  Len(AlertsOf(n)[i].label) = 2
                  => /\ ~Heuristic1(n)
                     /\ AlertsOf(n)[i].label[2] = " (no click!)"
                     /\ captured[n].event_type = "Foreground"
    /\ \A i \in 1..Len(screenshots) : screenshots[i].name = alerts[i].label[1]

\* C11 witness: a Foreground event of powershell's window, processed with no
\* recent click, raised the one alert labelled "powershell", and a Foreground
\* event of notepad's window raised the one labelled with the suffix
C11_Witness ==
    \E n, m \in Range(accepted) :
        /\ captured[n].event_type = "Foreground" /\ captured[n].hwnd = 1
        /\ LAST_MOUSE_CLICK_MS = 0
        /\ AlertsOf(n) # <<>> /\ AlertsOf(n)[1].label = <<"powershell">>
        /\ captured[m].hwnd = 2
        /\ AlertsOf(m) # <<>> /\ AlertsOf(m)[1].label = <<"notepad", " (no click!)">>

\* C12: an accepted Focus, Minimized, Restored or ZOrderChanged event causes
\* no alert dispatch and no screenshot request, whatever the name of its
\* process and whatever clicks were recorded.
C12_OtherKindsNeverAlert ==
    \A n \in Range(accepted) :
        captured[n].event_type \in {"Focus", "Minimized", "Restored", "ZOrderChanged"}
        => AlertsOf(n) = <<>> /\ ScreenshotsOf(n) = <<>>

\* C12 witness: the Worker accepted a Focus event of powershell's window with
\* no click ever recorded, and a Minimized event of cmd's window
C12_Witness ==
    \E n, m \in Range(accepted) :
        /\ captured[n].event_type = "Focus" /\ captured[n].hwnd = 1
        /\ SuspiciousInfo[ProcessInfoOf[os][1]]
        /\ LAST_MOUSE_CLICK_MS = 0
        /\ captured[m].event_type = "Minimized" /\ captured[m].hwnd = 4
        /\ alerts = <<>>

\* event number n is a Foreground event of a process that is neither
\* allow-listed nor name-suspicious
PlainForeground(n) ==
    /\ captured[n].event_type = "Foreground"
    /\ ~IgnoredInfo[ProcessInfoOf[os][captured[n].hwnd]]
    /\ ~SuspiciousInfo[ProcessInfoOf[os][captured[n].hwnd]]

\* a pointer click was recorded within the 500 ms before event n was captured
ClickBefore(n) == captured[n].timestamp - captured[n].click < 500

\* the focus-without-click alert was raised for event n
FlaggedNoClick(n) ==
    \E a \in 1..Len(alerts) :
        alerts[a].seq = n /\ Len(alerts[a].label) = 2 /\ alerts[a].label[2] = " (no click!)"

\* C4 as stated: an accepted Foreground event of a process that is not
\* allow-listed and not name-suspicious raises the focus-without-click alert
\* exactly when no pointer click was recorded within the 500 ms before the
\* event, whatever time passes between its capture and its processing.
C4_FlaggedIffNoClickBeforeEvent ==
    \A n \in Range(accepted) :
        PlainForeground(n) => (FlaggedNoClick(n) <=> ~ClickBefore(n))

\* a shutdown was requested: the tray exit request, or CTRL+C
ShutdownRequested == SHOULD_EXIT \/ pcCtrlC \in {"post", "done"}

\* run_with_tray_check returned: the message loop ended and the Worker and the
\* Sink were joined
AllTerminated == pcMain = "done" /\ pcWorker = "done" /\ pcSink = "done"

\* C5 as stated: once a shutdown is requested after the pipeline threads were
\* started, the shutdown flag is set and the message-loop thread, the Worker
\* and the Sink all terminate, however the request interleaves with the
\* start of the message loop.
C5_ShutdownTerminates ==
    /\ ShutdownRequested ~> SHUTDOWN
    /\ ShutdownRequested ~> AllTerminated

C7_Backpressure ==
    /\ [](Len(queueA) <= 1000 /\ Len(queueB) <= 1000)
    /\ [][/\ (Len(queueA) = 1000 /\ captured' # captured) => queueA' = queueA
          /\ (Len(queueB) = 1000 /\ offered' # offered)
                 => (queueB' = queueB /\ ~offered'[Len(offered')].sent)
          /\ (Len(queueA) < 1000 /\ captured' # captured)
                 => queueA' = Append(queueA, captured'[Len(captured')])
          /\ (queueA' # queueA /\ captured' # captured) => IsPrefix(queueA, queueA')
          /\ (queueB' # queueB /\ offered' # offered) => IsPrefix(queueB, queueB')]_vars

\* C7 witness: a callback ran while queue A was full and its event is in no
\* queue, and the Worker offered an entry to the full queue B and got it back
C7_Witness ==
    /\ Len(queueB) = 1000
    /\ Len(offered) = 1001
    /\ ~offered[1001].sent
    /\ Len(captured) = 1002
    /\ received = [i \in 1..1001 |-> i]
    /\ queueA = <<>>

\* C8: every event the Worker accepted, alerted or not, has exactly one
\* LogEntry offered to queue B, in one try_send and no more; the entry carries
\* the event's timestamp, the label of its kind and the fields of the resolved
\* ProcessInfo; an entry try_send gave back is never sent again.
KindLabel ==
    [Foreground |-> "FOCUS", Created |-> "CREATED", Shown |-> "SHOWN", Focus |-> "FOCUS",
     Minimized |-> "MINIMIZED", Restored |-> "RESTORED", ZOrderChanged |-> "Z-ORDER"]

ProcessFields == DOMAIN DefaultProcessInfo

C8_AcceptedOfferedOnce ==
    /\ Len(offered) = Len(accepted)
    /\ \A i \in 1..Len(accepted) :
           LET event == captured[accepted[i]]
               entry == offered[i].entry
               info == get_process_info(event.hwnd, ProcTables[os])
           IN  /\ entry.seq = event.seq
               /\ entry.timestamp = event.timestamp
               /\ entry.event_type = KindLabel[event.event_type]
               /\ \A f \in ProcessFields : entry[f] = info[f]
    /\ \A i \in 1..Len(offered) :
           LET n == offered[i].entry.seq
               inB == Len(SelectSeq(queueB, LAMBDA e : e.seq = n))
               inFile == Len(SelectSeq(Records, LAMBDA r : r.seq = n))
           IN  inB + inFile <= (IF offered[i].sent THEN 1 ELSE 0)

\* C8 witness: the Worker accepted an event that raised an alert and one that
\* raised none, some time after their capture, and offered a LogEntry for each
C8_Witness ==
    \E i, j \in 1..Len(offered) :
        /\ \E a \in 1..Len(alerts) : alerts[a].seq = offered[i].entry.seq
        /\ \A a \in 1..Len(alerts) : alerts[a].seq # offered[j].entry.seq
        /\ offered[i].sent
        /\ clock > offered[i].entry.timestamp

\* C9: the Sink appends records in the order in which the Worker sent the
\* LogEntries into queue B, and the Worker offers LogEntries in the order in
\* which it accepted the events it took from queue A.
C9_SinkOrder ==
    /\ IsPrefix(RecordSeqs, SentSeqs)
    /\ (pcSink = "recv" =>
            RecordSeqs \o [i \in 1..Len(queueB) |-> queueB[i].seq] = SentSeqs)
    /\ OfferedSeqs = accepted
    /\ accepted = SelectSeq(received, LAMBDA n : n \in Range(accepted))

\* C9 witness: two records in the file while a third entry waits in queue B
C9_Witness == Len(Records) >= 2 /\ queueB # <<>>

\* C10: two events of one window handle that both entered queue A are
\* dequeued by the Worker in the order in which their callbacks ran.
C10_CaptureOrder ==
    \A i, j \in 1..Len(received) :
        (i < j /\ captured[received[i]].hwnd = captured[received[j]].hwnd)
        => received[i] < received[j]

\* C10 witness: the Worker dequeued the event of log_current_foreground and,
\* after it, an event of a callback for the same window
C10_Witness ==
    /\ Len(received) >= 2
    /\ captured[received[1]].hwnd = captured[received[2]].hwnd
    /\ pcMain = "GetMessage"
    /\ received[1] = 1
    /\ captured[1].event_type = "Foreground"
    /\ received[1] < received[2]

\* needle occurs in name at position i when letter case is ignored
OccursAt(name, needle, i) ==
    /\ i + Len(needle) - 1 <= Len(name)
    /\ \A k \in 1..Len(needle) : LowerChar(name[i + k - 1]) = LowerChar(needle[k])

\* C13: a direct call of is_suspicious_process returns true exactly when one
\* of the eight fixed substrings occurs in the lower-cased name; it returns
\* true for "powershell.exe", "PowerShell" and "cmd", false for "notepad",
\* and the same for every spelling of the name that differs in letter case
\* only.
C13_SuspiciousName ==
    ret # <<>> =>
        /\ ret[1] = (\E needle \in {"powershell", "pwsh", "cmd", "wscript", "cscript",
                                 "mshta", "rundll32", "regsvr32"} :
                     \E i \in 1..Len(arg) : OccursAt(arg, Chars(needle), i))
        /\ arg \in {Chars("powershell.exe"), Chars("PowerShell"), Chars("cmd")}
               => ret[1] = TRUE
        /\ arg = Chars("notepad") => ret[1] = FALSE
        /\ \A v \in CaseVariants(arg) : is_suspicious_process(v) = ret[1]

\* "PowerShell" was passed and found suspicious
C13_Witness == arg = Chars("PowerShell") /\ ret = <<TRUE>>

\* the LogEntries the Worker offered for event number n
OfferedOf(n) == SelectSeq(offered, LAMBDA o : o.entry.seq = n)

\* the process names that are, letter case ignored, on the allow-list
AllowListedNames ==
    {info.process_name : info \in
        {i \in ProcessInfos :
            to_lowercase(Chars(i.process_name))
                \in {Chars("pc_watcher"), Chars("pc_watcher.exe"),
                     Chars("explorer"), Chars("explorer.exe")}}}

\* the process name or the window class of a LogEntry is on the allow-list
AllowListed(entry) ==
    \/ entry.process_name \in AllowListedNames
    \/ entry.window_class \in {"Shell_TrayWnd", "Progman", "PCWatcherAlert",
                                "PCWatcherDetails", "PCWatcherTray"}

NoClickAlert(a) == a.label[Len(a.label)] = " (no click!)"

\* C14: an accepted Foreground event whose resolved process name is, letter
\* case ignored, pc_watcher, pc_watcher.exe, explorer or explorer.exe, or whose
\* window class is one of the five listed classes, raises no alert labelled
\* " (no click!)", recent click or not; its LogEntry still enters queue B.
C14_AllowList ==
    \A n \in Range(accepted) :
        /\ Len(OfferedOf(n)) = 1
        /\ OfferedOf(n)[1].sent
        /\ (captured[n].event_type = "Foreground" /\ AllowListed(OfferedOf(n)[1].entry))
               => \A k \in 1..Len(alerts) :
                      alerts[k].seq = n => ~NoClickAlert(alerts[k])

\* with no click so far, the Worker processed a Foreground event of "Explorer"
\* (class not listed) and one of a "notepad" window of class Shell_TrayWnd,
\* raised no alert and sent both LogEntries
C14_Witness ==
    /\ LAST_MOUSE_CLICK_MS = 0
    /\ alerts = <<>>
    /\ Len(accepted) = 2
    /\ \E i, j \in 1..2 :
           /\ captured[accepted[i]].event_type = "Foreground"
           /\ OfferedOf(accepted[i])[1].entry.process_name = "Explorer"
           /\ OfferedOf(accepted[i])[1].entry.window_class = "CabinetWClass"
           /\ captured[accepted[j]].event_type = "Foreground"
           /\ OfferedOf(accepted[j])[1].entry.process_name = "notepad"
           /\ OfferedOf(accepted[j])[1].entry.window_class = "Shell_TrayWnd"
           /\ OfferedOf(accepted[i])[1].sent /\ OfferedOf(accepted[j])[1].sent

\* the footers of the session file
Footers == SelectSeq(file, LAMBDA item : item.kind = "footer")

C16_FlushBound ==
    /\ pcSink = "recv" =>
           /\ unflushed <= 9
           /\ unflushed = entry_count % 10
    /\ pcSink = "done" => unflushed = 0

\* the Sink waits for its 21st entry: the 20th was flushed
C16_Witness ==
    /\ pcSink = "recv"
    /\ entry_count = 20
    /\ Len(Records) = 20
    /\ unflushed = 0

\* the add_log_entry calls, and the set_log_file_path calls, of the session
Announced == SelectSeq(gui, LAMBDA g : g.call = "add_log_entry")

PathCalls == SelectSeq(gui, LAMBDA g : g.call = "set_log_file_path")

\* the LogEntries the Sink took from queue B so far: queue B is first in,
\* first out
SinkTaken == SubSeq(SentSeqs, 1, Len(Sent) - Len(queueB))

\* each LogEntry the Sink took is one record of the file and one add_log_entry
\* call, in the order taken; set_log_file_path is never called twice and is
\* called before the first add_log_entry
ConsumedOnce ==
    /\ RecordSeqs = SinkTaken
    /\ [i \in 1..Len(Announced) |-> Announced[i].seq] = SinkTaken
    /\ \A i \in 1..Len(Announced) :
           Announced[i].details = Records[i].text
    /\ Len(PathCalls) <= 1
    /\ Announced # <<>> => gui[1].call = "set_log_file_path"

C18_SinkFailure ==
    /\ [](pcSink # "start" =>
             /\ SinkFailed
             /\ gui = <<>>
             /\ log_receiver = FALSE
             /\ pcWorker # "done"
             /\ Alive)
    /\ \A n \in 1..(MaxSinkFailEvents + 1) :
           (SinkFailed /\ Len(captured) >= n)
           ~> (/\ n \in Range(received)
               /\ (n \in Range(accepted) /\ Heuristic1(n)) => Len(AlertsOf(n)) = 1)

\* after the Sink failed the Worker took three events, could send none of the
\* LogEntries and dispatched an alert for the last one
C18_Witness ==
    /\ SinkFailed
    /\ Len(received) = 3
    /\ Len(offered) = 3
    /\ \A k \in 1..3 : ~offered[k].sent
    /\ Len(AlertsOf(offered[3].entry.seq)) = 1
    /\ pcWorker = "loop"

\* the session log files of the log directory, least recently modified first
EventLogs == SelectSeq(log_dir, LAMBDA f : f.prefix = "event_")

\* C19: when the Sink is past its start-up it has deleted every session log
\* file of earlier sessions but the 2 most recently modified ones, and the
\* log directory never holds the session log files of more than 2 sessions.
C19_AtMostTwoSessionsRetained == Len(EventLogs) <= 2

\* the identity fields of a ProcessInfo: all but the window title and class
Identity(info) ==
    [f \in ProcessFields \ {"window_title", "window_class"} |-> info[f]]

\* calls i and j of get_process_info_cached were for windows of one non-zero
\* process id
SamePid(i, j) ==
    /\ WinTable[ret[i].hwnd].pid = WinTable[ret[j].hwnd].pid
    /\ WinTable[ret[i].hwnd].pid # 0

\* the window title and class of every result are those of the window asked
\* for, as they are at the call
LiveWindowFields ==
    \A j \in 1..Len(ret) :
        /\ ret[j].info.window_title = WinTable[ret[j].hwnd].title
        /\ ret[j].info.window_class = WinTable[ret[j].hwnd].class

\* C20 as stated: any two calls of get_process_info_cached for windows of one
\* non-zero process id made less than 5 seconds apart return the same
\* identity fields, whatever happened to the process table in between; title
\* and class are read live.
C20_SameWithinFiveSeconds ==
    /\ LiveWindowFields
    /\ \A i, j \in 1..Len(ret) :
           (i < j /\ SamePid(i, j) /\ ret[j].at - ret[i].at < 5000)
               => Identity(ret[i].info) = Identity(ret[j].info)

\* C20, amended: a call of get_process_info_cached made less than 5 seconds
\* after the call that stored the cache entry of the process id returns the
\* identity fields that call returned, whatever happened to the process table
\* in between; a call that finds no entry, or one stored 5 seconds or more
\* ago, returns the identity fields of the process table as it is and stores
\* them anew; title and class are read live.
C20_SameWhileEntryYoung ==
    /\ LiveWindowFields
    /\ \A i, j \in 1..Len(ret) :
           (i < j /\ SamePid(i, j) /\ ret[i].stored /\ ret[j].at - ret[i].at < 5000)
               => /\ ~ret[j].stored
                  /\ Identity(ret[i].info) = Identity(ret[j].info)
    /\ \A j \in 1..Len(ret) :
           WinTable[ret[j].hwnd].pid # 0 =>
               IF ret[j].stored
               THEN /\ Identity(ret[j].info)
                          = Identity(get_process_info(ret[j].hwnd, ProcTables[ret[j].os]))
                    /\ \A i \in 1..(j - 1) :
                           (SamePid(i, j) /\ ret[i].stored)
                               => ret[j].at - ret[i].at >= 5000
               ELSE \E i \in 1..(j - 1) :
                        /\ SamePid(i, j) /\ ret[i].stored
                        /\ ret[j].at - ret[i].at < 5000

\* notepad's window 2 was resolved; notepad's process id went to cmd.exe;
\* 2.5 s after the first call window 7 of the same process id was resolved
\* as notepad still, with its own window class
C20_Witness ==
    \E i, j \in 1..Len(ret) :
        /\ i < j
        /\ ret[i].hwnd = 2 /\ ret[i].os = 1 /\ ret[i].stored
        /\ ret[j].hwnd = 7 /\ ret[j].os = 2 /\ ~ret[j].stored
        /\ ret[j].at - ret[i].at = 2500
        /\ ret[j].info.process_name = "notepad"
        /\ ret[i].info.window_class = "Notepad"
        /\ ret[j].info.window_class = "Shell_TrayWnd"
        /\ get_process_info(7, ProcTables[2]).process_name = "cmd"

\* the calls of get_process_info_cached made so far for windows of process p
CallsFor(p) == {j \in 1..Len(ret) : WinTable[ret[j].hwnd].pid = p}

\* C21: the cache entry of a process id carries the time of the call that
\* inserted it, a call that found no entry younger than 5 seconds, and the
\* identity fields resolved by that call; every later call for the process
\* id up to now was made less than 5 seconds after that time and was served
\* the entry without changing its time: had a call come 5 seconds or more
\* after the insertion, it would have replaced the entry.
C21_TimeToLive ==
    \A p \in DOMAIN PROCESS_CACHE :
        LET entry == PROCESS_CACHE[p]
        IN  /\ \E i \in CallsFor(p) :
                   /\ ret[i].at = entry.at
                   /\ ret[i].stored
                   /\ Identity(entry.info)
                         = Identity(get_process_info(ret[i].hwnd, ProcTables[ret[i].os]))
                   /\ \A j \in CallsFor(p) :
                          j > i => /\ ~ret[j].stored
                                   /\ ret[j].at - entry.at < 5000
                                   /\ Identity(ret[j].info) = Identity(entry.info)
                   /\ \A j \in CallsFor(p) :
                          (j < i /\ ret[j].stored) => entry.at - ret[j].at >= 5000

\* the entry of pid 20 was inserted at 1000, read at 3500 and, the read
\* notwithstanding, replaced by the call at 6000
C21_Witness ==
    /\ Len(ret) = 3
    /\ \A j \in 1..3 : ret[j].hwnd = 2
    /\ ret[1].at = 1000 /\ ret[1].stored
    /\ ret[2].at = 3500 /\ ~ret[2].stored
    /\ ret[3].at = 6000 /\ ret[3].stored
    /\ PROCESS_CACHE[20].at = 6000

\* C22: the cache never holds more than 100 entries.
C22_CacheBound == Cardinality(DOMAIN PROCESS_CACHE) <= 100


\* the fields of a ProcessInfo: the process, its window, and three levels
ProcessInfoFields ==
    {"process_name", "process_id", "process_path", "window_title", "window_class",
     "command_line",
     "parent_process_name", "parent_process_id", "parent_process_path",
     "grandparent_process_name", "grandparent_process_id", "grandparent_process_path",
     "greatgrandparent_process_name", "greatgrandparent_process_id",
     "greatgrandparent_process_path"}

\* C23: every ProcessInfo returned by the resolver has the parent, grandparent
\* and great-grandparent levels and no further one, whatever the process tree
\* looks like; the grandparent level is empty (pid 0, no name, no path) when
\* the parent level has pid 0, and the great-grandparent level is empty when
\* the grandparent level has pid 0.
C23_AncestryBound ==
    \A n \in 1..Len(ret) :
        LET info == ret[n].info
        IN  /\ DOMAIN info = ProcessInfoFields
            /\ info.parent_process_id = 0 =>
                   /\ info.grandparent_process_id = 0
                   /\ info.grandparent_process_name = ""
                   /\ info.grandparent_process_path = ""
            /\ info.grandparent_process_id = 0 =>
                   /\ info.greatgrandparent_process_id = 0
                   /\ info.greatgrandparent_process_name = ""
                   /\ info.greatgrandparent_process_path = ""

\* a call for a process in a parent cycle that came back with all three
\* levels filled, and a call for a process right below the System process
C23_Witness ==
    /\ \E n \in 1..Len(ret) :
           /\ ret[n].info.process_id = 50
           /\ ret[n].info.parent_process_id = 51
           /\ ret[n].info.grandparent_process_id = 50
           /\ ret[n].info.greatgrandparent_process_id = 51
    /\ \E n \in 1..Len(ret) :
           /\ ret[n].info.process_id = 64
           /\ ret[n].info.parent_process_name = "System"
           /\ ret[n].info.parent_process_id = 0

\* the three ancestry levels of a ProcessInfo
Ancestry(info) ==
    <<info.parent_process_name, info.parent_process_id, info.parent_process_path,
      info.grandparent_process_name, info.grandparent_process_id,
      info.grandparent_process_path,
      info.greatgrandparent_process_name, info.greatgrandparent_process_id,
      info.greatgrandparent_process_path>>

\* the process table with process_id open to query+read
Opened(table, process_id) == [table EXCEPT ![process_id].access = "full"]

\* C24: when the process can be opened neither with query+read rights nor
\* with query rights only, the ProcessInfo returned is named "Access denied",
\* its path contains "Access denied", and its three ancestry levels are the
\* ones returned when the process can be opened; when the query-only open
\* succeeds and gives a path, name and path are the real ones.
C24_AccessDenied ==
    \A n \in 1..Len(ret) :
        LET info == ret[n].info
            table == ProcTables[ret[n].os]
            process_id == WinTable[ret[n].hwnd].pid
        IN  /\ (/\ process_id \in DOMAIN table
                /\ table[process_id].access = "none") =>
                   /\ info.process_name = "Access denied"
                   /\ contains(Chars(info.process_path), Chars("Access denied"))
                   /\ Ancestry(info) =
                          Ancestry(get_process_info(ret[n].hwnd, Opened(table, process_id)))
            /\ (/\ process_id \in DOMAIN table
                /\ table[process_id].access = "query"
                /\ table[process_id].path # "") =>
                   /\ info.process_path = table[process_id].path
                   /\ info.process_name = NameOfPath(table[process_id].path)

\* a call for a process that cannot be opened at all, below a chain of three
\* processes, and a call for one that can be opened with query rights only
C24_Witness ==
    /\ \E n \in 1..Len(ret) :
           /\ WinTable[ret[n].hwnd].pid = 70
           /\ ret[n].info.process_name = "Access denied"
           /\ ret[n].info.greatgrandparent_process_id = 63
    /\ \E n \in 1..Len(ret) :
           /\ WinTable[ret[n].hwnd].pid = 71
           /\ ret[n].info.process_name = "notepad"


\* the places of the open and of the CloseHandle of handle h in a sequence
OpenedAt(handles, h) == {i \in DOMAIN handles : handles[i] = Opens(h)}

ClosedAt(handles, h) == {i \in DOMAIN handles : handles[i] = Closes(h)}

\* C25: every process handle and every snapshot handle that a call of
\* get_process_info opens is closed exactly once before the call returns,
\* and none is left open, on every path.
C25_HandlesClosed ==
    \A n \in 1..Len(ret) :
        LET handles == ret[n].handles
        IN  \A i \in DOMAIN handles :
                LET h == handles[i].handle
                IN  /\ Cardinality(OpenedAt(handles, h)) = 1
                    /\ Cardinality(ClosedAt(handles, h)) = 1
                    /\ \A o \in OpenedAt(handles, h), c \in ClosedAt(handles, h) : o < c

\* a call for a process that can be opened with query rights only, whose
\* parent cannot be opened, with a snapshot that cannot be walked on the way
C25_Witness ==
    /\ Len(ret) = 1
    /\ WinTable[ret[1].hwnd].pid = 71
    /\ ret[1].snaps[<<"snapshot of parent id", 3>>] = "empty"
    /\ OpenedAt(ret[1].handles, <<"process, query only", 0>>) # {}
    /\ OpenedAt(ret[1].handles, <<"snapshot of name", 1>>) # {}
    /\ OpenedAt(ret[1].handles, <<"process", 2>>) # {}
    /\ OpenedAt(ret[1].handles, <<"snapshot of parent id", 3>>) # {}


\* the message loop is running
InMessageLoop == pcMain \in {"message_loop", "GetMessage"}

\* C26: once SHUTDOWN is true it stays true: no step of any thread stores
\* false into it; the steps of the Worker, of the Sink and of the message
\* loop leave it as it is, the other steps leave it or make it true.
C26_ShutdownWriteOnce ==
    [][/\ SHUTDOWN => SHUTDOWN'
       /\ (\/ pcWorker' # pcWorker
           \/ pcSink' # pcSink
           \/ InMessageLoop /\ pcMain' # pcMain) => SHUTDOWN' = SHUTDOWN]_vars

\* the tray checker and the CTRL+C handler have both stored, the message loop
\* has read the flag, and the main thread has stored again and ended
C26_Witness ==
    /\ SHUTDOWN
    /\ pcTray = "done"
    /\ pcCtrlC = "done"
    /\ pcWorker = "done"
    /\ pcMain = "done"

\* the main thread is at or past the join of the Worker
AtJoins == pcMain \in {"join_worker", "join_logger", "done"}

\* C27: after the message loop has exited every subscription that was
\* registered, the pointer hook among them, is released, each exactly once,
\* in the step between the loop's exit and the joins of the Worker and the
\* Sink; nothing is released while the message loop is running.
C27_ReleaseOnShutdown ==
    /\ pcMain = "cleanup" ~> (AtJoins /\ registered = {})
    /\ [](AtJoins => registered = {})
    /\ [](InMessageLoop => \A h \in DOMAIN unhooked : unhooked[h] = 0)
    /\ [][\A h \in DOMAIN unhooked :
             /\ unhooked'[h] \in {unhooked[h], unhooked[h] + 1}
             /\ unhooked'[h] # unhooked[h] =>
                    /\ pcMain = "unhook_all"
                    /\ h \in registered
                    /\ unhooked[h] = 0
                    /\ pcMain' = "join_worker"
             /\ (h \in registered /\ h \notin registered') =>
                    unhooked'[h] = unhooked[h] + 1]_vars

\* the program has ended after a start with one window-event subscription and
\* the pointer hook: both were released once, the other subscriptions never
C27_Witness ==
    /\ pcMain = "done"
    /\ registered = {}
    /\ unhooked["FOREGROUND"] = 1
    /\ unhooked["MOUSE"] = 1
    /\ unhooked["CREATE"] = 0


\* C28: one Created event of the PowerShell window, whose parent is explorer,
\* makes the Worker produce exactly one LogEntry, with event_type "CREATED"
\* and the parent level (explorer, its pid, its path), one alert and one
\* screenshot request: never more, and all of them once the Worker has taken
\* the event.
C28_ScenarioA ==
    /\ Len(offered) <= 1
    /\ Len(alerts) <= 1
    /\ Len(screenshots) <= 1
    /\ received = <<1>> =>
           /\ Len(offered) = 1
           /\ offered[1].entry.event_type = "CREATED"
           /\ offered[1].entry.process_name = "powershell"
           /\ offered[1].entry.parent_process_name = "explorer"
           /\ offered[1].entry.parent_process_id = 4
           /\ offered[1].entry.parent_process_path = "C:\\Windows\\explorer.exe"
           /\ Len(alerts) = 1
           /\ alerts[1].label = <<"powershell">>
           /\ Len(screenshots) = 1
           /\ screenshots[1].name = "powershell"

\* the Created event went through the Worker into the session file
C28_Witness ==
    /\ Len(captured) = 1
    /\ captured[1].event_type = "Created"
    /\ received = <<1>>
    /\ Len(alerts) = 1
    /\ Len(Records) = 1

\* the two events delivered are the same event, less than 50 ms apart
SameEventTwice ==
    /\ Len(captured) = 2
    /\ SameTarget(captured[1], captured[2])
    /\ TimeApart(captured[1], captured[2]) < 50

\* C29: when the same event (same window, same kind) enters queue A twice,
\* less than 50 ms apart and with nothing in between, exactly one LogEntry
\* reaches the Sink and at most one alert is dispatched.
C29_ScenarioB ==
    SameEventTwice =>
        /\ Len(offered) <= 1
        /\ Len(Records) <= 1
        /\ Len(alerts) <= 1
        /\ received = <<1, 2>> =>
               /\ accepted = <<1>>
               /\ OfferedSeqs = <<1>>
               /\ offered[1].sent
        /\ (received = <<1, 2>> /\ queueB = <<>> /\ pcSink = "recv") =>
               RecordSeqs = <<1>>

\* Created events of the PowerShell window 25 ms apart: the Worker took both,
\* alerted once, and the Sink wrote the one record
C29_Witness ==
    /\ SameEventTwice
    /\ captured[1].event_type = "Created"
    /\ captured[1].hwnd = 1
    /\ TimeApart(captured[1], captured[2]) = 25
    /\ received = <<1, 2>>
    /\ Len(alerts) = 1
    /\ RecordSeqs = <<1>>


\* the seven event codes the program subscribes to
SubscribedCodes ==
    {EVENT_SYSTEM_FOREGROUND, EVENT_OBJECT_CREATE, EVENT_OBJECT_SHOW,
     EVENT_OBJECT_FOCUS, EVENT_SYSTEM_MINIMIZESTART, EVENT_SYSTEM_MINIMIZEEND,
     EVENT_OBJECT_REORDER}

\* a call of the callback that is to enqueue its event: the top-level window
\* object, a subscribed code, and for Created and Shown a window that is
\* visible and not minimized
ToEnqueue(call) ==
    /\ call.id_object = 0
    /\ call.event \in SubscribedCodes
    /\ call.event \in {EVENT_OBJECT_CREATE, EVENT_OBJECT_SHOW} =>
           call.visible /\ ~call.iconic

\* C30: the window-event callback enqueues nothing when the object id is not
\* 0 or the event code is none of the seven subscribed ones; it enqueues a
\* Created or Shown event only for a window that is visible and not
\* minimized, and an event of the other five kinds whatever the window's
\* state: queue A holds one event per such call, in call order.
C30_PreFilter ==
    LET enqueuing == SelectSeq(ret, ToEnqueue)
    IN  /\ Len(queueA) = Len(enqueuing)
        /\ \A i \in 1..Len(queueA) :
               /\ queueA[i].hwnd = enqueuing[i].hwnd
               /\ queueA[i].event_type = EventTypeOf(enqueuing[i].event)

\* a Focus event of a hidden, minimized window was enqueued, and a Created
\* event of a hidden window was not
C30_Witness ==
    /\ Len(ret) = 2
    /\ ret[1].event = EVENT_OBJECT_FOCUS /\ ret[1].id_object = 0
    /\ ~ret[1].visible /\ ret[1].iconic
    /\ ret[2].event = EVENT_OBJECT_CREATE /\ ret[2].id_object = 0
    /\ ~ret[2].visible
    /\ Len(queueA) = 1
    /\ queueA[1].event_type = "Focus"


\* C31: the Worker never abandons an event in mid-processing: every event it
\* has taken from queue A was dropped as a duplicate of an event accepted
\* before it, or has had its LogEntry offered to queue B, by the time the
\* Worker is back at its shutdown test or has ended.
C31_NoEventAbandoned ==
    pcWorker \in {"loop", "recv", "done"} =>
        /\ OfferedSeqs = accepted
        /\ \A n \in Range(received) :
               n \in Range(OfferedSeqs) \/ NearEarlierAccepted(n)

\* the Worker has ended on the shutdown flag after taking three events: one
\* was offered, then a duplicate dropped, then another offered
C31_Witness ==
    /\ pcWorker = "done"
    /\ SHUTDOWN
    /\ received = <<1, 2, 3>>
    /\ OfferedSeqs = <<1, 3>>
    /\ NearEarlierAccepted(2)


\* set_hooks has run and returned its error: no window-event subscription
\* was granted
SetHooksFailed ==
    /\ pcMain # "set_hooks"
    /\ registered \cap WinEventHooks = {}
    /\ \A h \in DOMAIN unhooked : unhooked[h] = 0

\* C32: when set_hooks returns an error run_with_tray_check returns it
\* without entering the message loop and without enqueuing the initial
\* foreground event; no window event enters queue A and no record is written
\* to a session log in that run.
C32_StartupAbort ==
    SetHooksFailed =>
        /\ pcMain = "failed"
        /\ MESSAGE_THREAD_ID = 0
        /\ captured = <<>>
        /\ queueA = <<>>
        /\ received = <<>>
        /\ Records = <<>>

\* no window-event subscription was granted, the pointer hook was; the Sink
\* had opened its session file and the Worker was waiting when the run ended
C32_Witness ==
    /\ pcMain = "failed"
    /\ registered = {"MOUSE"}
    /\ pcSink = "recv"
    /\ pcWorker = "recv"
    /\ file # <<>>
    /\ Records = <<>>


\* the dedup window entry of event number n
WindowEntry(n) == <<captured[n].hwnd, captured[n].event_type, captured[n].timestamp>>

\* the last k elements of a sequence, all of them when it has fewer
LastOf(seq, k) ==
    IF Len(seq) <= k THEN seq ELSE SubSeq(seq, Len(seq) - k + 1, Len(seq))

\* C33: the Worker's dedup window holds at most 10 entries at every point:
\* the most recently accepted events, in the order of acceptance; the 11th
\* accepted event removes the oldest entry.
C33_DedupWindow ==
    /\ Len(last_events) <= 10
    /\ last_events = [i \in 1..Len(LastOf(accepted, 10)) |-> WindowEntry(LastOf(accepted, 10)[i])]

\* twelve events were accepted; the window holds the third to the twelfth
C33_Witness ==
    /\ Len(accepted) = 12
    /\ Len(last_events) = 10
    /\ last_events[1] = WindowEntry(accepted[3])
    /\ last_events[10] = WindowEntry(accepted[12])


\* the Worker takes an event from queue A in this step and finds it a
\* duplicate
TakesDuplicate ==
    /\ queueA # <<>>
    /\ received' = Append(received, Head(queueA).seq)
    /\ is_duplicate(last_events, Head(queueA))

\* C34: a duplicate has no effect: the step in which the Worker finds an
\* event a duplicate resolves nothing, raises no alert, asks for no
\* screenshot, sends nothing to queue B and leaves the dedup window and the
\* process cache as they are; the window holds accepted events only.
C34_DuplicateNoEffect ==
    /\ [][TakesDuplicate =>
             /\ last_events' = last_events
             /\ PROCESS_CACHE' = PROCESS_CACHE
             /\ accepted' = accepted
             /\ alerts' = alerts
             /\ screenshots' = screenshots
             /\ offered' = offered
             /\ queueB' = queueB]_vars
    /\ [](\A i \in 1..Len(last_events) :
              \E n \in Range(accepted) : last_events[i] = WindowEntry(n))

\* three events of one window and kind, 50 ms apart: the second was dropped
\* as a duplicate and the third, 100 ms after the first, was accepted
C34_Witness ==
    /\ Len(captured) = 3
    /\ SameTarget(captured[1], captured[2])
    /\ SameTarget(captured[2], captured[3])
    /\ TimeApart(captured[1], captured[2]) = 50
    /\ TimeApart(captured[2], captured[3]) = 50
    /\ received = <<1, 2, 3>>
    /\ accepted = <<1, 3>>
    /\ Len(last_events) = 2


\* C35: once the shutdown flag is set the Worker starts on at most one more
\* event and then ends, also when queue A still holds events: it takes an
\* event only from its receive, after which it is at the test of the flag,
\* from where it takes no event and goes nowhere but to its end, which it
\* reaches; what queue A holds then is never resolved, alerted on or logged.
C35_BoundedShutdownResponse ==
    /\ [][(SHUTDOWN /\ received' # received) =>
              /\ pcWorker = "recv"
              /\ pcWorker' = "loop"
              /\ Len(received') = Len(received) + 1]_vars
    /\ [][(SHUTDOWN /\ pcWorker = "loop") =>
              /\ received' = received
              /\ pcWorker' \in {"loop", "done"}]_vars
    /\ [][pcWorker = "done" =>
              /\ pcWorker' = "done"
              /\ UNCHANGED <<received, accepted, offered, alerts, screenshots,
                             last_events, PROCESS_CACHE>>]_vars
    /\ SHUTDOWN ~> pcWorker = "done"

\* the Worker has ended on the flag with one event taken and two left in
\* queue A
C35_Witness ==
    /\ SHUTDOWN
    /\ pcWorker = "done"
    /\ Len(received) = 1
    /\ Len(queueA) = 2
    /\ Len(offered) = 1

\* C36: queue A stays connected for the life of the process. The global
\* EVENT_SENDER holds a producer handle besides the one run_with_tray_check
\* drops, so at least one handle is live at all times; the Worker ends only
\* from its test of the shutdown flag, with the flag set, never from its
\* receive; and the main thread gets past the join of the Worker only with
\* the flag set and the Worker ended.
C36_QueueAConnected ==
    /\ [](event_senders >= 1)
    /\ [](pcWorker = "done" => SHUTDOWN)
    /\ [](pcMain \in {"join_logger", "done"} => SHUTDOWN /\ pcWorker = "done")
    /\ [][(pcWorker' = "done" /\ pcWorker # "done") =>
              pcWorker = "loop" /\ SHUTDOWN]_vars

\* the main thread has dropped its own handle and has returned from the join
\* of the Worker, with an event still in queue A
C36_Witness ==
    /\ pcMain = "join_logger"
    /\ event_senders = 1
    /\ pcWorker = "done"
    /\ queueA # <<>>

\* C37: alert auto-clear. After every set_alert call the alert is active
\* until 5 seconds after that call, also when another alert was raised less
\* than 5 seconds before it.
C37_AlertAutoClear ==
    \A i \in DOMAIN alert_calls :
        (alert_calls[i].call = "set_alert" /\ clock < alert_calls[i].at + ALERT_TIMEOUT_MS)
            => ALERT_ACTIVE

\* C38: the alert text is not overwritten while an alert is active. With
\* ALERT_ACTIVE true, the last set_alert call returned and no clear_alert
\* step run since that call began, ALERT_MESSAGE is the text of that call.
C38_AlertTextKept ==
    (/\ ALERT_ACTIVE
     /\ pcSetAlert = <<>>
     /\ alert_calls # <<>>
     /\ alert_calls[Len(alert_calls)].call = "set_alert")
        => ALERT_MESSAGE = AlertText(alert_calls[Len(alert_calls)].process_name)

====
